---- MODULE Spec2Model ----
(***************************************************************************)
(* A model of the mv-redux vector/matrix library.                          *)
(*                                                                         *)
(* JavaScript values are records [type, v]:                                *)
(*   number        [type |-> "number", v |-> n]                            *)
(*   plain array   [type |-> "array",  v |-> <<n0, n1, ...>>]              *)
(*   vector        [type |-> "vec2" | "vec3" | "vec4", v |-> <<...>>]      *)
(*   matrix        [type |-> "mat2" | "mat3" | "mat4", v |-> <<col0,...>>] *)
(*   thrown error  [type |-> "error",  v |-> "<function>: <kind>"]         *)
(* A JavaScript index i is the TLA+ index i + 1; At and At2 keep the       *)
(* source's zero-based indices.  Numbers are integers, on which the        *)
(* double arithmetic of the source is exact.                               *)
(***************************************************************************)
EXTENDS Integers, Sequences, FiniteSets, TLC

VARIABLES op, args, out

vars == <<op, args, out>>

\* ------------------------------------------------------------------ bounds

\* Components of the input vectors and matrices range over -MaxVal..MaxVal.
MaxVal == 1

\* Numbers handed to the flattening vector constructors range over 0..MaxNum.
MaxNum == 3

\* The flattening vector constructors are called with at most MaxArgs arguments.
MaxArgs == 3

\* The ratio s of mix is held in units of 1/RatioUnit: Num(h) as the third
\* argument of mix stands for h/RatioUnit.
RatioUnit == 2

\* The wait of throttle and debounce in milliseconds, the time a run lasts
\* and the calls made in it.
Wait == 2

MaxTime == 6

MaxCalls == 3
MaxWrites == 3
MaxSide == 2
MaxRatio == 2

\* ------------------------------------------------------------- JS values

\* The value of reading past the end of an array, and of arithmetic on it:
\* integers that no arithmetic of the bounded model produces.
Undefined == -1000001

NaN == -1000003

\* The quotient of a non-zero number and 0, whatever its sign.
Infinity == -1000005

Num(n) == [type |-> "number", v |-> n]

Arr(s) == [type |-> "array", v |-> s]

Error(kind) == [type |-> "error", v |-> kind]

None == [type |-> "none", v |-> 0]

IsError(x) == x.type = "error"

\* u[i] of the source: a missing index reads undefined.
At(u, i) == IF i + 1 \in DOMAIN u.v THEN u.v[i + 1] ELSE Undefined

\* u[c][r] of the source.
At2(u, c, r) == u.v[c + 1][r + 1]

\* x * y on JavaScript numbers: undefined or NaN as an operand gives NaN.
JsMul(x, y) == IF x \in {Undefined, NaN} \/ y \in {Undefined, NaN} THEN NaN ELSE x * y

\* Math.min and Math.max.
Min(x, y) == IF x <= y THEN x ELSE y

Max(x, y) == IF x >= y THEN x ELSE y

\* typeof x === 'number'
IsNumber(x) == x.type = "number"

isVector(x) == x.type \in {"vec2", "vec3", "vec4"}

isMatrix(x) == x.type \in {"mat2", "mat3", "mat4"}

\* (x as any)?.type ?? typeof x : the name the error messages are built from.
TypeName(x) == IF isVector(x) \/ isMatrix(x) THEN x.type
               ELSE IF IsNumber(x) THEN "number" ELSE "object"

StartsWithVec(t) == t \in {"vec2", "vec3", "vec4"}

StartsWithMat(t) == t \in {"mat2", "mat3", "mat4"}

\* -------------------------------------------------- vector constructors

\* The elements one argument contributes to args.flat(1): a number is itself,
\* an array or vector its numbers, a matrix its column arrays.
FlatElems(a) ==
    IF a.type \in {"array", "vec2", "vec3", "vec4"}
    THEN [i \in 1..Len(a.v) |-> Num(a.v[i])]
    ELSE IF isMatrix(a) THEN [i \in 1..Len(a.v) |-> Arr(a.v[i])]
    ELSE <<a>>

RECURSIVE Flat1(_)
Flat1(as) == IF as = <<>> THEN <<>> ELSE FlatElems(Head(as)) \o Flat1(Tail(as))

\* The test of the numbers that lets everything pass.
AllNumbers_unchecked(values) == TRUE

AllNumbers(values) == \A i \in 1..Len(values) : IsNumber(values[i])

vec2(as) ==
    LET values == Flat1(as) IN
    IF ~AllNumbers(values) THEN Error("vec2: expected all numbers")
    ELSE IF Len(as) = 0 THEN [type |-> "vec2", v |-> <<0, 0>>]
    ELSE IF Len(as) = 1 /\ IsNumber(as[1])
         THEN [type |-> "vec2", v |-> <<values[1].v, values[1].v>>]
    ELSE IF Len(values) >= 2
         THEN [type |-> "vec2", v |-> <<values[1].v, values[2].v>>]
    ELSE Error("vec2: too few values")

vec3(as) ==
    LET values == Flat1(as) IN
    IF ~AllNumbers(values) THEN Error("vec3: expected all numbers")
    ELSE IF Len(as) = 0 THEN [type |-> "vec3", v |-> <<0, 0, 0>>]
    ELSE IF Len(as) = 1 /\ IsNumber(as[1])
         THEN [type |-> "vec3", v |-> <<values[1].v, values[1].v, values[1].v>>]
    ELSE IF Len(values) >= 3
         THEN [type |-> "vec3", v |-> <<values[1].v, values[2].v, values[3].v>>]
    ELSE Error("vec3: too few values")

\* vec4 refusing more than four values instead of ignoring them.
vec4_exact(as) ==
    LET values == Flat1(as) IN
    IF ~AllNumbers(values) THEN Error("vec4: expected all numbers")
    ELSE IF Len(values) = 0 THEN [type |-> "vec4", v |-> <<0, 0, 0, 0>>]
    ELSE IF Len(as) = 1 /\ IsNumber(as[1])
         THEN [type |-> "vec4",
               v |-> <<values[1].v, values[1].v, values[1].v, values[1].v>>]
    ELSE IF Len(values) = 4
         THEN [type |-> "vec4",
               v |-> <<values[1].v, values[2].v, values[3].v, values[4].v>>]
    ELSE Error("vec4: too few values")

vec4(as) ==
    LET values == Flat1(as) IN
    IF ~AllNumbers(values) THEN Error("vec4: expected all numbers")
    ELSE IF Len(values) = 0 THEN [type |-> "vec4", v |-> <<0, 0, 0, 0>>]
    ELSE IF Len(as) = 1 /\ IsNumber(as[1])
         THEN [type |-> "vec4",
               v |-> <<values[1].v, values[1].v, values[1].v, values[1].v>>]
    ELSE IF Len(values) >= 4
         THEN [type |-> "vec4",
               v |-> <<values[1].v, values[2].v, values[3].v, values[4].v>>]
    ELSE Error("vec4: too few values")

\* The calls vecN(x, y, ...) the operations make with N numbers.
V2(x, y) == vec2(<<Num(x), Num(y)>>)

V3(x, y, z) == vec3(<<Num(x), Num(y), Num(z)>>)

V4(x, y, z, w) == vec4(<<Num(x), Num(y), Num(z), Num(w)>>)

\* -------------------------------------------------- matrix constructors

\* The identity the constructors start from.
Ident(n) == [c \in 1..n |-> [r \in 1..n |-> IF c = r THEN 1 ELSE 0]]

\* The block written over zeroes instead of over the identity.
CopyBlock_zeroes(n, k, m) ==
    [c \in 1..n |-> [r \in 1..n |-> IF c <= k /\ r <= k THEN m.v[c][r] ELSE 0]]

\* A source matrix's top-left k-by-k block written over the n-by-n identity.
CopyBlock(n, k, m) ==
    [c \in 1..n |-> [r \in 1..n |->
        IF c <= k /\ r <= k THEN m.v[c][r] ELSE Ident(n)[c][r]]]

\* One number on the diagonal of the identity.
Diag(n, x) == [c \in 1..n |-> [r \in 1..n |-> IF c = r THEN x ELSE 0]]

\* n*n numbers, assigned out[c][r] = args[n*c + r].
FromNumbers(n, as) == [c \in 1..n |-> [r \in 1..n |-> as[n * (c - 1) + r].v]]

\* The test of the column vectors without the test of their lengths.
AllVectorsOfLength_any(n, as) == \A i \in 1..Len(as) : isVector(as[i])

AllVectorsOfLength(n, as) ==
    /\ \A i \in 1..Len(as) : isVector(as[i])
    /\ \A i \in 1..Len(as) : Len(as[i].v) = n

mat2(as) ==
    IF Len(as) = 0 THEN [type |-> "mat2", v |-> Ident(2)]
    ELSE IF Len(as) = 4 THEN
        IF ~AllNumbers(as) THEN Error("mat2: invalid arguments")
        ELSE [type |-> "mat2", v |-> FromNumbers(2, as)]
    ELSE IF Len(as) = 2 THEN
        IF ~AllVectorsOfLength(2, as) THEN Error("mat2: invalid arguments")
        ELSE [type |-> "mat2", v |-> <<as[1].v, as[2].v>>]
    ELSE IF Len(as) = 1 THEN
        IF IsNumber(as[1]) THEN [type |-> "mat2", v |-> Diag(2, as[1].v)]
        ELSE IF isMatrix(as[1]) THEN [type |-> "mat2", v |-> CopyBlock(2, 2, as[1])]
        ELSE Error("mat2: invalid arguments")
    ELSE Error("mat2: invalid arguments")

mat3(as) ==
    IF Len(as) = 0 THEN [type |-> "mat3", v |-> Ident(3)]
    ELSE IF Len(as) = 9 THEN
        IF ~AllNumbers(as) THEN Error("mat3: invalid arguments")
        ELSE [type |-> "mat3", v |-> FromNumbers(3, as)]
    ELSE IF Len(as) = 3 THEN
        IF ~AllVectorsOfLength(3, as) THEN Error("mat3: invalid arguments")
        ELSE [type |-> "mat3", v |-> <<as[1].v, as[2].v, as[3].v>>]
    ELSE IF Len(as) = 1 THEN
        IF IsNumber(as[1]) THEN [type |-> "mat3", v |-> Diag(3, as[1].v)]
        ELSE IF isMatrix(as[1]) THEN
            IF as[1].type \in {"mat4", "mat3"}
            THEN [type |-> "mat3", v |-> CopyBlock(3, 3, as[1])]
            ELSE [type |-> "mat3", v |-> CopyBlock(3, 2, as[1])]
        ELSE Error("mat3: invalid arguments")
    ELSE Error("mat3: invalid arguments")

mat4(as) ==
    IF Len(as) = 0 THEN [type |-> "mat4", v |-> Ident(4)]
    ELSE IF Len(as) = 16 THEN
        IF ~AllNumbers(as) THEN Error("mat4: invalid arguments")
        ELSE [type |-> "mat4", v |-> FromNumbers(4, as)]
    ELSE IF Len(as) = 4 THEN
        IF ~AllVectorsOfLength(4, as) THEN Error("mat4: invalid arguments")
        ELSE [type |-> "mat4", v |-> <<as[1].v, as[2].v, as[3].v, as[4].v>>]
    ELSE IF Len(as) = 1 THEN
        IF IsNumber(as[1]) THEN [type |-> "mat4", v |-> Diag(4, as[1].v)]
        ELSE IF isMatrix(as[1]) THEN
            IF as[1].type = "mat4" THEN [type |-> "mat4", v |-> CopyBlock(4, 4, as[1])]
            ELSE IF as[1].type = "mat3" THEN [type |-> "mat4", v |-> CopyBlock(4, 3, as[1])]
            ELSE [type |-> "mat4", v |-> CopyBlock(4, 2, as[1])]
        ELSE Error("mat4: invalid arguments")
    ELSE Error("mat4: invalid arguments")

\* The 16 numbers as the mv/ constructor stores them: columns 0 and 1 from
\* args[0..7], column 2 from args[6..9] (assigned twice), column 3 untouched.
MvFromNumbers16(as) ==
    << <<as[1].v, as[2].v, as[3].v, as[4].v>>,
       <<as[5].v, as[6].v, as[7].v, as[8].v>>,
       <<as[7].v, as[8].v, as[9].v, as[10].v>>,
       Ident(4)[4] >>

\* mat4 of the mv/ directory.
mv_mat4(as) ==
    IF Len(as) = 0 THEN [type |-> "mat4", v |-> Ident(4)]
    ELSE IF Len(as) = 16 THEN
        IF ~AllNumbers(as) THEN Error("mat4: expected 16 numbers")
        ELSE [type |-> "mat4", v |-> MvFromNumbers16(as)]
    ELSE IF Len(as) = 4 THEN
        IF \E i \in 1..4 : ~isVector(as[i]) THEN Error("mat4: expected 4 column vectors")
        ELSE IF \E i \in 1..4 : Len(as[i].v) # 4 THEN Error("mat4: column vectors should be of size 4")
        ELSE [type |-> "mat4", v |-> <<as[1].v, as[2].v, as[3].v, as[4].v>>]
    ELSE IF Len(as) = 1 THEN
        IF IsNumber(as[1]) THEN [type |-> "mat4", v |-> Diag(4, as[1].v)]
        ELSE IF isMatrix(as[1]) /\ Len(as[1].v) = 4
             THEN [type |-> "mat4", v |-> <<as[1].v[1], as[1].v[2], as[1].v[3], as[1].v[4]>>]
        ELSE Error("mat4: expected a single scalar or a matrix")
    ELSE Error("mat4: invalid arguments")

\* The calls matN(m00, m10, ...) the operations make with N*N numbers.
NumArgs(s) == [i \in 1..Len(s) |-> Num(s[i])]

M2(s) == mat2(NumArgs(s))

M3(s) == mat3(NumArgs(s))

M4(s) == mat4(NumArgs(s))

\* ------------------------------------------------------------ operations

\* The sum F(1) + ... + F(n) of one inner product written out in the source.
RECURSIVE SumTo(_, _)
SumTo(F(_), n) == IF n = 0 THEN 0 ELSE SumTo(F, n - 1) + F(n)

\* The columns of a matrix one after the other: the order of the N*N
\* numbers handed to matN.
RECURSIVE ColumnMajor(_)
ColumnMajor(cols) == IF cols = <<>> THEN <<>> ELSE Head(cols) \o ColumnMajor(Tail(cols))

\* vec2(...), vec3(...) or vec4(...) of the numbers s, by the operand's tag.
VecOf(t, s) ==
    IF t = "vec4" THEN vec4(NumArgs(s))
    ELSE IF t = "vec3" THEN vec3(NumArgs(s))
    ELSE vec2(NumArgs(s))

\* mat2(...), mat3(...) or mat4(...) of the entries, given column by column.
MatOf(t, cols) ==
    IF t = "mat4" THEN M4(ColumnMajor(cols))
    ELSE IF t = "mat3" THEN M3(ColumnMajor(cols))
    ELSE M2(ColumnMajor(cols))

Size(u) == Len(u.v)

\* add with the vector branch taken for vectors of any two lengths.
add_any_length(u, v) ==
    IF isVector(u) /\ isVector(v)
    THEN VecOf(u.type, [i \in 1..Size(u) |-> u.v[i] + At(v, i - 1)])
    ELSE IF isMatrix(u) /\ isMatrix(v) /\ u.type = v.type
    THEN MatOf(u.type, [c \in 1..Size(u) |-> [r \in 1..Size(u) |-> u.v[c][r] + v.v[c][r]]])
    ELSE IF StartsWithMat(TypeName(u)) /\ StartsWithMat(TypeName(v))
    THEN Error("add: matrices must be the same size")
    ELSE Error("add: expected two matrices or vectors")

add(u, v) ==
    IF isVector(u) /\ isVector(v) /\ u.type = v.type
    THEN VecOf(u.type, [i \in 1..Size(u) |-> u.v[i] + v.v[i]])
    ELSE IF ~(isVector(u) /\ isVector(v)) /\ isMatrix(u) /\ isMatrix(v) /\ u.type = v.type
    THEN MatOf(u.type, [c \in 1..Size(u) |-> [r \in 1..Size(u) |-> u.v[c][r] + v.v[c][r]]])
    ELSE IF StartsWithVec(TypeName(u)) /\ StartsWithVec(TypeName(v))
    THEN Error("add: vectors must be the same length")
    ELSE IF StartsWithMat(TypeName(u)) /\ StartsWithMat(TypeName(v))
    THEN Error("add: matrices must be the same size")
    ELSE Error("add: expected two matrices or vectors")

sub(u, v) ==
    IF isVector(u) /\ isVector(v) /\ u.type = v.type
    THEN VecOf(u.type, [i \in 1..Size(u) |-> u.v[i] - v.v[i]])
    ELSE IF ~(isVector(u) /\ isVector(v)) /\ isMatrix(u) /\ isMatrix(v) /\ u.type = v.type
    THEN MatOf(u.type, [c \in 1..Size(u) |-> [r \in 1..Size(u) |-> u.v[c][r] - v.v[c][r]]])
    ELSE IF StartsWithVec(TypeName(u)) /\ StartsWithVec(TypeName(v))
    THEN Error("sub: vectors must be the same length")
    ELSE IF StartsWithMat(TypeName(u)) /\ StartsWithMat(TypeName(v))
    THEN Error("sub: matrices must be the same size")
    ELSE Error("sub: expected two matrices or vectors")

\* Matrix * matrix of ops.ts: the number in column j, row i of the argument
\* list is u[j][0]*v[0][i] + u[j][1]*v[1][i] + ...
MultMatMat(u, v) ==
    MatOf(u.type, [j \in 1..Size(u) |-> [i \in 1..Size(u) |->
        SumTo(LAMBDA k : u.v[j][k] * v.v[k][i], Size(u))]])

\* Matrix * vector of ops.ts: component i is u[i][0]*v[0] + u[i][1]*v[1] + ...
MultMatVec(u, v) ==
    VecOf(v.type, [i \in 1..Size(v) |->
        SumTo(LAMBDA k : u.v[i][k] * v.v[k], Size(v))])

\* A vector or matrix times a number, entry by entry.
MultScalar(mat, num) ==
    IF isVector(mat)
    THEN VecOf(mat.type, [i \in 1..Size(mat) |-> At(mat, i - 1) * num])
    ELSE MatOf(mat.type, [c \in 1..Size(mat) |-> [r \in 1..Size(mat) |->
            At2(mat, c - 1, r - 1) * num]])

\* mult reporting every rejected pair with the generic error.
MultError_generic(u, v) == Error("mult: expected matrices, vectors or a scalar")

MultError(u, v) ==
    IF StartsWithVec(TypeName(u)) /\ StartsWithMat(TypeName(v))
    THEN Error("mult: matrix must be the left-hand operand")
    ELSE IF StartsWithMat(TypeName(u)) /\ StartsWithVec(TypeName(v))
    THEN Error("mult: matrix and vector operands must be the same size")
    ELSE Error("mult: expected matrices, vectors or a scalar")

mult(u, v) ==
    IF isMatrix(u) /\ isMatrix(v) /\ u.type = v.type THEN MultMatMat(u, v)
    ELSE IF (isMatrix(u) \/ isVector(u)) /\ IsNumber(v) THEN MultScalar(u, v.v)
    ELSE IF IsNumber(u) /\ (isMatrix(v) \/ isVector(v)) THEN MultScalar(v, u.v)
    ELSE IF isMatrix(u) /\ isVector(v) /\ Size(u) = Size(v) THEN MultMatVec(u, v)
    ELSE IF isVector(u) /\ isVector(v) /\ u.type = v.type
    THEN VecOf(u.type, [i \in 1..Size(u) |-> u.v[i] * v.v[i]])
    ELSE MultError(u, v)

\* Matrix * matrix of mv/: the number in column j, row i of the argument
\* list is u[0][j]*v[i][0] + u[1][j]*v[i][1] + ...
MvMultMatMat(u, v) ==
    MatOf(u.type, [j \in 1..Size(u) |-> [i \in 1..Size(u) |->
        SumTo(LAMBDA k : u.v[k][j] * v.v[i][k], Size(u))]])

\* Matrix * vector of mv/: component i is u[0][i]*v[0] + u[1][i]*v[1] + ...
MvMultMatVec(u, v) ==
    VecOf(v.type, [i \in 1..Size(v) |->
        SumTo(LAMBDA k : u.v[k][i] * v.v[k], Size(v))])

\* A vector or matrix times a number in mv/: the vec4 case reads mat[4] for
\* its last component.
MvMultScalar(mat, num) ==
    IF mat.type = "vec4"
    THEN V4(JsMul(At(mat, 0), num), JsMul(At(mat, 1), num),
            JsMul(At(mat, 2), num), JsMul(At(mat, 4), num))
    ELSE IF isVector(mat)
    THEN VecOf(mat.type, [i \in 1..Size(mat) |-> JsMul(At(mat, i - 1), num)])
    ELSE MatOf(mat.type, [c \in 1..Size(mat) |-> [r \in 1..Size(mat) |->
            JsMul(At2(mat, c - 1, r - 1), num)]])

\* mult of the mv/ directory.
mv_mult(u, v) ==
    IF isMatrix(u) /\ isMatrix(v)
    THEN IF u.type = v.type THEN MvMultMatMat(u, v) ELSE MultError(u, v)
    ELSE IF (isMatrix(u) \/ isVector(u)) /\ IsNumber(v) THEN MvMultScalar(u, v.v)
    ELSE IF (isMatrix(v) \/ isVector(v)) /\ IsNumber(u) THEN MvMultScalar(v, u.v)
    ELSE IF isMatrix(u) /\ isVector(v)
    THEN IF Size(u) = Size(v) THEN MvMultMatVec(u, v) ELSE MultError(u, v)
    ELSE IF isVector(u) /\ isVector(v) /\ u.type = v.type
    THEN VecOf(u.type, [i \in 1..Size(u) |-> u.v[i] * v.v[i]])
    ELSE MultError(u, v)

dot(u, v) ==
    IF isVector(u) /\ isVector(v) /\ u.type = v.type
    THEN Num(SumTo(LAMBDA k : u.v[k] * v.v[k], Size(u)))
    ELSE IF StartsWithVec(TypeName(u)) /\ StartsWithVec(TypeName(v))
    THEN Error("dot: vectors must be the same length")
    ELSE Error("dot: expected two vectors")

\* cross with the terms of its middle component the other way round.
cross_unswapped(u, v) ==
    IF isVector(u) /\ isVector(v) /\ u.type = "vec3" /\ v.type = "vec3"
    THEN V3(At(u, 1) * At(v, 2) - At(u, 2) * At(v, 1),
            At(u, 0) * At(v, 2) - At(u, 2) * At(v, 0),
            At(u, 0) * At(v, 1) - At(u, 1) * At(v, 0))
    ELSE IF StartsWithVec(TypeName(u)) /\ StartsWithVec(TypeName(v))
    THEN Error("cross: only valid for (vec3 x vec3)")
    ELSE Error("cross: expected two 3D vectors")

cross(u, v) ==
    IF isVector(u) /\ isVector(v) /\ u.type = "vec3" /\ v.type = "vec3"
    THEN V3(At(u, 1) * At(v, 2) - At(u, 2) * At(v, 1),
            At(u, 2) * At(v, 0) - At(u, 0) * At(v, 2),
            At(u, 0) * At(v, 1) - At(u, 1) * At(v, 0))
    ELSE IF StartsWithVec(TypeName(u)) /\ StartsWithVec(TypeName(v))
    THEN Error("cross: only valid for (vec3 x vec3)")
    ELSE Error("cross: expected two 3D vectors")

\* ------------------------------------------------------ vector operations

\* Math.sqrt on the perfect squares, where it is exact.
IsSquare(n) == \E r \in 0..n : r * r = n

Sqrt(n) == CHOOSE r \in 0..n : r * r = n

\* x / m on JavaScript numbers, where the quotient is an integer or m is 0.
Abs(x) == IF x < 0 THEN 0 - x ELSE x

JsDiv(x, m) ==
    IF m = 0 THEN (IF x = 0 THEN NaN ELSE Infinity)
    ELSE IF (x >= 0) = (m > 0) THEN Abs(x) \div Abs(m) ELSE 0 - (Abs(x) \div Abs(m))

magnitude(v) ==
    IF isVector(v) THEN Num(Sqrt(SumTo(LAMBDA k : v.v[k] * v.v[k], Size(v))))
    ELSE Error("magnitude: expected a vector")

\* normalize dividing by the magnitude whatever it is.
normalize_unguarded(v) ==
    IF isVector(v) THEN
        LET m == Sqrt(SumTo(LAMBDA k : v.v[k] * v.v[k], Size(v)))
        IN  VecOf(v.type, [i \in 1..Size(v) |-> JsDiv(v.v[i], m)])
    ELSE Error("normalize: expected a vector")

normalize(v) ==
    IF isVector(v) THEN
        LET m == Sqrt(SumTo(LAMBDA k : v.v[k] * v.v[k], Size(v)))
        IN  IF m = 0
            THEN (IF v.type = "vec4" THEN vec4(<<Num(0)>>)
                  ELSE IF v.type = "vec3" THEN vec3(<<Num(0)>>)
                  ELSE vec2(<<Num(0)>>))
            ELSE VecOf(v.type, [i \in 1..Size(v) |-> JsDiv(v.v[i], m)])
    ELSE Error("normalize: expected a vector")

negate(v) ==
    IF isVector(v) THEN VecOf(v.type, [i \in 1..Size(v) |-> 0 - v.v[i]])
    ELSE Error("negate: expected a vector")

\* The vectors Math.sqrt and the divisions of normalize are exact on.
ExactNormalize(v) ==
    isVector(v) =>
        LET sq == SumTo(LAMBDA k : v.v[k] * v.v[k], Size(v))
        IN  /\ IsSquare(sq)
            /\ sq # 0 => \A i \in 1..Size(v) : (v.v[i] * v.v[i]) % sq = 0

\* mix using the ratio as given, without clamping it.
mix_unclamped(u, v, s) ==
    IF ~IsNumber(s) THEN Error("mix: expected s to be a number")
    ELSE
        LET h == s.v
            r == RatioUnit - h
        IN  IF IsNumber(u) /\ IsNumber(v)
            THEN Num(JsDiv(r * u.v + h * v.v, RatioUnit))
            ELSE IF isVector(u) /\ isVector(v) /\ u.type = v.type
            THEN VecOf(u.type, [i \in 1..Size(u) |->
                     JsDiv(r * u.v[i] + h * v.v[i], RatioUnit)])
            ELSE IF StartsWithVec(TypeName(u)) /\ StartsWithVec(TypeName(v))
            THEN Error("mix: vectors must be the same length")
            ELSE Error("mix: expected three numbers or two vectors and a number")

\* r * u + s * v with s clamped to [0, 1] and r = 1 - s; in units of
\* 1/RatioUnit the clamp is to 0..RatioUnit and the sum is divided by it.
mix(u, v, s) ==
    IF ~IsNumber(s) THEN Error("mix: expected s to be a number")
    ELSE
        LET h == Min(RatioUnit, Max(s.v, 0))
            r == RatioUnit - h
        IN  IF IsNumber(u) /\ IsNumber(v)
            THEN Num(JsDiv(r * u.v + h * v.v, RatioUnit))
            ELSE IF isVector(u) /\ isVector(v) /\ u.type = v.type
            THEN VecOf(u.type, [i \in 1..Size(u) |->
                     JsDiv(r * u.v[i] + h * v.v[i], RatioUnit)])
            ELSE IF StartsWithVec(TypeName(u)) /\ StartsWithVec(TypeName(v))
            THEN Error("mix: vectors must be the same length")
            ELSE Error("mix: expected three numbers or two vectors and a number")

\* The operands the divisions by RatioUnit are exact on.
ExactMix(u, v, s) ==
    LET h == IF IsNumber(s) THEN Min(RatioUnit, Max(s.v, 0)) ELSE 0
        r == RatioUnit - h
    IN  /\ (IsNumber(u) /\ IsNumber(v)) => (r * u.v + h * v.v) % RatioUnit = 0
        /\ (isVector(u) /\ isVector(v) /\ u.type = v.type) =>
               \A i \in 1..Size(u) : (r * u.v[i] + h * v.v[i]) % RatioUnit = 0

\* -------------------------------------------------------- matrix algebra

\* vec3(m[c]): the top three rows of column c.
Col3(m, c) == vec3(<<Arr(m.v[c + 1])>>)

det(m) ==
    IF isMatrix(m) /\ m.type = "mat4" THEN
        LET a == Col3(m, 0)
            b == Col3(m, 1)
            c == Col3(m, 2)
            d == Col3(m, 3)
            x == At2(m, 0, 3)
            y == At2(m, 1, 3)
            z == At2(m, 2, 3)
            w == At2(m, 3, 3)
            s == cross(a, b)
            t == cross(c, b)
            u == sub(mult(Num(y), a), mult(Num(x), b))
            v == sub(mult(Num(w), c), mult(Num(z), d))
        IN  Num(dot(s, v).v + dot(t, u).v)
    ELSE IF isMatrix(m) /\ m.type = "mat3" THEN
        LET a == Col3(m, 0)
            b == Col3(m, 1)
            c == Col3(m, 2)
        IN  dot(cross(a, b), c)
    ELSE IF isMatrix(m) /\ m.type = "mat2" THEN
        Num(At2(m, 0, 0) * At2(m, 1, 1) - At2(m, 1, 0) * At2(m, 0, 1))
    ELSE Error("det: expected a matrix")

\* 1.0 / d where the quotient is an integer; the inputs of the model keep
\* every divisor at 1 or -1.
Recip(d) == CASE d = 1 -> 1 [] d = -1 -> -1

\* The mat2 branch of inverse with the off-diagonal entries left unnegated.
inverse2_unnegated(m) ==
    LET invDet == Recip(det(m).v)
    IN  M2(<<invDet * At2(m, 1, 1), invDet * At2(m, 0, 1),
             invDet * At2(m, 1, 0), invDet * At2(m, 0, 0)>>)

\* The rows r0..r3 of the inverse from the scaled intermediate vectors, and
\* the matrix built from them.
Inverse4Rows(a, b, c, d, x, y, z, w, s, t, u, v) ==
    LET r0 == add(cross(b, v), mult(Num(y), t))
        r1 == sub(cross(v, a), mult(Num(x), t))
        r2 == add(cross(d, u), mult(Num(w), s))
        r3 == sub(cross(u, c), mult(Num(z), s))
    IN  M4(<<At(r0, 0), At(r1, 0), At(r2, 0), At(r3, 0),
             At(r0, 1), At(r1, 1), At(r2, 1), At(r3, 1),
             At(r0, 2), At(r1, 2), At(r2, 2), At(r3, 2),
             0 - dot(b, t).v, dot(a, t).v, 0 - dot(d, s).v, dot(c, s).v>>)

\* The intermediate vectors multiplied by invDet.
Inverse4Scaled(a, b, c, d, x, y, z, w, s, t, u, v, invDet) ==
    Inverse4Rows(a, b, c, d, x, y, z, w,
                 mult(s, Num(invDet)), mult(t, Num(invDet)),
                 mult(u, Num(invDet)), mult(v, Num(invDet)))

\* invDet from the intermediate vectors.
Inverse4InvDet(a, b, c, d, x, y, z, w, s, t, u, v) ==
    Inverse4Scaled(a, b, c, d, x, y, z, w, s, t, u, v,
                   Recip(dot(s, v).v + dot(t, u).v))

\* The intermediate vectors from the columns' top three rows a, b, c, d and
\* the bottom row x, y, z, w.
Inverse4Vectors(a, b, c, d, x, y, z, w) ==
    Inverse4InvDet(a, b, c, d, x, y, z, w,
                   cross(a, b), cross(c, d),
                   sub(mult(Num(y), a), mult(Num(x), b)),
                   sub(mult(Num(w), c), mult(Num(z), d)))

inverse4(m) ==
    Inverse4Vectors(Col3(m, 0), Col3(m, 1), Col3(m, 2), Col3(m, 3),
                    At2(m, 0, 3), At2(m, 1, 3), At2(m, 2, 3), At2(m, 3, 3))

inverse3(m) ==
    LET a == Col3(m, 0)
        b == Col3(m, 1)
        c == Col3(m, 2)
        r0 == cross(b, c)
        r1 == cross(c, a)
        r2 == cross(a, b)
        invDet == Recip(dot(r2, c).v)
    IN  M3(<<At(r0, 0) * invDet, At(r1, 0) * invDet, At(r2, 0) * invDet,
             At(r0, 1) * invDet, At(r1, 1) * invDet, At(r2, 1) * invDet,
             At(r0, 2) * invDet, At(r1, 2) * invDet, At(r2, 2) * invDet>>)

inverse2(m) ==
    LET invDet == Recip(det(m).v)
        invNeg == 0 - invDet
    IN  M2(<<invDet * At2(m, 1, 1), invNeg * At2(m, 0, 1),
             invNeg * At2(m, 1, 0), invDet * At2(m, 0, 0)>>)

inverse(m) ==
    IF isMatrix(m) /\ m.type = "mat4" THEN inverse4(m)
    ELSE IF isMatrix(m) /\ m.type = "mat3" THEN inverse3(m)
    ELSE IF isMatrix(m) /\ m.type = "mat2" THEN inverse2(m)
    ELSE Error("inverse: expected a matrix")

\* transpose returning the entries where they were.
transpose_unmoved(m) ==
    IF isMatrix(m)
    THEN MatOf(m.type, [c \in 1..Size(m) |-> [r \in 1..Size(m) |-> m.v[c][r]]])
    ELSE Error("transpose: expected a matrix")

transpose(m) ==
    IF isMatrix(m)
    THEN MatOf(m.type, [c \in 1..Size(m) |-> [r \in 1..Size(m) |-> m.v[r][c]]])
    ELSE Error("transpose: expected a matrix")

\* ------------------------------------------------------------- transforms

\* A JavaScript boolean, and the truthiness of an argument that may be
\* omitted.
Bool(b) == [type |-> "boolean", v |-> b]

\* asMat3 = false: the flag of normalMatrix, false when not passed.
AsMat3(as) == IF Len(as) >= 2 THEN as[2].v ELSE FALSE

\* normalMatrix of init/canvas.ts: the matrix is cut to 3x3 before it is
\* transposed and inverted.
normalMatrix(m, asMat3) ==
    IF isMatrix(m) /\ m.type \in {"mat4", "mat3"}
    THEN IF asMat3 THEN inverse(transpose(mat3(<<m>>))) ELSE inverse(transpose(m))
    ELSE Error("normalMatrix: expected a 4D matrix")

\* The result n of inverse(transpose(m)) returned whole or as
\* mat3(n[0][0], n[0][1], ..., n[2][2]).
LibNormalResult(n, asMat3) ==
    IF asMat3
    THEN M3(<<At2(n, 0, 0), At2(n, 0, 1), At2(n, 0, 2),
              At2(n, 1, 0), At2(n, 1, 1), At2(n, 1, 2),
              At2(n, 2, 0), At2(n, 2, 1), At2(n, 2, 2)>>)
    ELSE n

\* normalMatrix of lib.ts.
lib_normalMatrix(m, asMat3) ==
    IF isMatrix(m) /\ m.type = "mat4"
    THEN LibNormalResult(inverse(transpose(m)), asMat3)
    ELSE Error("normalMatrix: expected a 4D matrix")

\* null, and an argument that was not passed (undefined).
Null == [type |-> "null", v |-> 0]

Missing == [type |-> "undefined", v |-> 0]

\* The i-th argument of a call, undefined when the call is shorter.
Arg(as, i) == IF i <= Len(as) THEN as[i] ELSE Missing

\* mat4(r[0], u[0], d[0], 0, ..., x, y, z, 1) with x, y, z the negated dot
\* products with the eye position; d is the negated direction.
LookAtResult(eye, d, r, u) ==
    M4(<<At(r, 0), At(u, 0), At(d, 0), 0,
         At(r, 1), At(u, 1), At(d, 1), 0,
         At(r, 2), At(u, 2), At(d, 2), 0,
         0 - dot(r, eye).v, 0 - dot(u, eye).v, 0 - dot(d, eye).v, 1>>)

\* u = cross(r, d), then d[0..2] are negated in place.
LookAtUp(eye, d, r) == LookAtResult(eye, negate(d), r, cross(r, d))

\* r = normalize(cross(d, upVec)).
LookAtRight(eye, d, upVec) == LookAtUp(eye, d, normalize(cross(d, upVec)))

\* upVec: Vec3 = vec3(0, 1, 0): the default replaces undefined only.
DefaultUp(up) == IF up = Missing THEN V3(0, 1, 0) ELSE up

lookAtMatrix(eyePosition, target, up) ==
    IF /\ isVector(eyePosition) /\ eyePosition.type = "vec3"
       /\ isVector(target) /\ target.type = "vec3"
       /\ isVector(DefaultUp(up)) /\ DefaultUp(up).type = "vec3"
    THEN LookAtRight(eyePosition, normalize(sub(target, eyePosition)), DefaultUp(up))
    ELSE Error("lookAtMatrix: expected three 3D vectors")

\* up ?? null
OrNull(up) == IF up \in {Missing, Null} THEN Null ELSE up

lookAt(eye, at, up) == lookAtMatrix(eye, at, OrNull(up))

\* The calls both normalize steps of lookAtMatrix are exact on.
ExactLookAt(eye, target, up) ==
    (/\ isVector(eye) /\ eye.type = "vec3" /\ isVector(target) /\ target.type = "vec3"
     /\ isVector(DefaultUp(up)) /\ DefaultUp(up).type = "vec3")
        => /\ ExactNormalize(sub(target, eye))
           /\ ExactNormalize(cross(normalize(sub(target, eye)), DefaultUp(up)))

\* A JavaScript string.
Str(s) == [type |-> "string", v |-> s]

\* The number d * DEGREES_TO_RADIANS, kept as d times pi/180.
PiOver180(d) == [type |-> "number", v |-> d, unit |-> "pi/180"]

\* radians(d): a vector is scaled component by component, a number is
\* scaled, anything else is an error.
radians(d) ==
    IF isVector(d) THEN [type |-> d.type, v |-> d.v, unit |-> "pi/180"]
    ELSE IF IsNumber(d) THEN PiOver180(d.v)
    ELSE Error("radians: expected number or vector")

\* The quarter turns in an angle: of the angles radians returns the
\* multiples of 90 degrees, of the plain numbers the angle 0.
QuarterTurns(a) == IF "unit" \in DOMAIN a THEN (a.v \div 90) % 4 ELSE 0

\* The angles Math.sin and Math.cos are taken of as whole numbers.
ExactAngle(a) == IF "unit" \in DOMAIN a THEN a.v % 90 = 0 ELSE a.v = 0

\* Math.sin and Math.cos at whole quarter turns.
Sin(a) == LET q == QuarterTurns(a) IN IF q = 1 THEN 1 ELSE IF q = 3 THEN -1 ELSE 0

Cos(a) == LET q == QuarterTurns(a) IN IF q = 0 THEN 1 ELSE IF q = 2 THEN -1 ELSE 0

\* axis.toLowerCase()
ToLowerCase(s) == IF s = "X" THEN "x" ELSE IF s = "Y" THEN "y" ELSE IF s = "Z" THEN "z" ELSE s

RotationError == Error("rotationMatrix: expected an axis and an angle")

\* The switch over the axis letter; a string that is none of the three
\* leaves the switch and reaches the error.
RotationAbout(letter, sin, cos) ==
    IF letter = "x" THEN M4(<<1, 0, 0, 0,  0, cos, sin, 0,  0, 0 - sin, cos, 0,  0, 0, 0, 1>>)
    ELSE IF letter = "y" THEN M4(<<cos, 0, 0 - sin, 0,  0, 1, 0, 0,  sin, 0, cos, 0,  0, 0, 0, 1>>)
    ELSE IF letter = "z" THEN M4(<<cos, sin, 0, 0,  0 - sin, cos, 0, 0,  0, 0, 1, 0,  0, 0, 0, 1>>)
    ELSE RotationError

\* The axis-angle matrix of the unit vector (x, y, z).
RotationAround(x, y, z, sin, cos, omc) ==
    M4(<<x * x * omc + cos,     x * y * omc + z * sin, x * z * omc - y * sin, 0,
         x * y * omc - z * sin, y * y * omc + cos,     y * z * omc + x * sin, 0,
         x * z * omc + y * sin, y * z * omc - x * sin, z * z * omc + cos,     0,
         0, 0, 0, 1>>)

RotationAroundAxis(n, sin, cos) == RotationAround(At(n, 0), At(n, 1), At(n, 2), sin, cos, 1 - cos)

rotationMatrix(axis, angle) ==
    IF ~IsNumber(angle) THEN Error("rotationMatrix: expected 'theta' to be a number")
    ELSE IF axis.type = "string" THEN RotationAbout(ToLowerCase(axis.v), Sin(angle), Cos(angle))
    ELSE IF isVector(axis) /\ axis.type = "vec3"
    THEN RotationAroundAxis(normalize(axis), Sin(angle), Cos(angle))
    ELSE RotationError

\* The switch of lib.ts over the axis letter.
LibRotationAbout(letter, sin, cos) ==
    IF letter = "x" THEN M4(<<1, 0, 0, 0,  0, cos, 0 - sin, 0,  0, sin, cos, 0,  0, 0, 0, 1>>)
    ELSE IF letter = "y" THEN M4(<<cos, 0, sin, 0,  0, 1, 0, 0,  0 - sin, 0, cos, 0,  0, 0, 0, 1>>)
    ELSE IF letter = "z" THEN M4(<<cos, 0 - sin, 0, 0,  sin, cos, 0, 0,  0, 0, 1, 0,  0, 0, 0, 1>>)
    ELSE RotationError

\* The axis-angle matrix of lib.ts; its [1][1] is cos + y * y * cos.
LibRotationAround(x, y, z, sin, cos, omc) ==
    M4(<<cos + x * x * omc,     y * x * omc + z * sin, z * x * omc - y * sin, 0,
         x * y * omc - z * sin, cos + y * y * cos,     z * y * omc + x * sin, 0,
         x * z * omc + y * sin, y * z * omc - x * sin, cos + z * z * omc,     0,
         0, 0, 0, 1>>)

LibRotationAroundAxis(n, sin, cos) ==
    LibRotationAround(At(n, 0), At(n, 1), At(n, 2), sin, cos, 1 - cos)

\* rotationMatrix of lib.ts: the angle is in degrees.
lib_rotationMatrix(axis, angle) ==
    IF ~IsNumber(angle) THEN Error("rotationMatrix: expected 'theta' to be a number")
    ELSE IF axis.type = "string"
    THEN LibRotationAbout(ToLowerCase(axis.v), Sin(radians(angle)), Cos(radians(angle)))
    ELSE IF isVector(axis) /\ axis.type = "vec3"
    THEN LibRotationAroundAxis(normalize(axis), Sin(radians(angle)), Cos(radians(angle)))
    ELSE RotationError

\* f(x, y) where evaluating x or y may have thrown.
Thrown(x, y) == IF IsError(x) THEN x ELSE y

\* rotate(...args), as is the argument list.
rotate(as) ==
    IF Len(as) = 2
    THEN Thrown(radians(as[1]), rotationMatrix(as[2], radians(as[1])))
    ELSE IF Len(as) = 4
    THEN Thrown(vec3(<<as[2], as[3], as[4]>>),
             Thrown(radians(as[1]), rotationMatrix(vec3(<<as[2], as[3], as[4]>>), radians(as[1]))))
    ELSE rotationMatrix(Arg(as, 1), Arg(as, 2))

rotateX(degrees) == Thrown(radians(degrees), rotationMatrix(Str("x"), radians(degrees)))

rotateY(degrees) == Thrown(radians(degrees), rotationMatrix(Str("y"), radians(degrees)))

rotateZ(degrees) == Thrown(radians(degrees), rotationMatrix(Str("z"), radians(degrees)))

\* The calls the sine, the cosine and the normalize step are exact on.
ExactRotation(axis, angle) ==
    /\ IsNumber(angle) => ExactAngle(angle)
    /\ isVector(axis) => ExactNormalize(axis)

\* mat4() with [0][0], [1][1], [2][2] and [0][3], [1][3], [2][3] assigned.
OrthographicResult(left, right, bottom, top, near, far, width, height, depth) ==
    M4(<<JsDiv(2, width), 0, 0, JsDiv(0 - (left + right), width),
         0, JsDiv(2, height), 0, JsDiv(0 - (top + bottom), height),
         0, 0, JsDiv(-2, depth), JsDiv(0 - (near + far), depth),
         0, 0, 0, 1>>)

orthographicMatrix(left, right, bottom, top, near, far) ==
    IF \E x \in {left, right, bottom, top, near, far} : ~IsNumber(x)
    THEN Error("orthographicMatrix: expected six numbers")
    ELSE OrthographicResult(left.v, right.v, bottom.v, top.v, near.v, far.v,
                            right.v - left.v, top.v - bottom.v, far.v - near.v)

ortho(left, right, bottom, top, near, far) ==
    orthographicMatrix(left, right, bottom, top, near, far)

\* x / m is a whole number.
Divides(m, x) == m # 0 /\ x % Abs(m) = 0

\* The boxes every division of orthographicMatrix is exact on.
ExactOrthographic(as) ==
    (\A i \in 1..6 : IsNumber(Arg(as, i))) =>
        /\ Divides(as[2].v - as[1].v, 2) /\ Divides(as[2].v - as[1].v, as[1].v + as[2].v)
        /\ Divides(as[4].v - as[3].v, 2) /\ Divides(as[4].v - as[3].v, as[3].v + as[4].v)
        /\ Divides(as[6].v - as[5].v, 2) /\ Divides(as[6].v - as[5].v, as[5].v + as[6].v)

\* mat4(1, 0, 0, 0, 0, 1, 0, 0, 0, 0, 1, 0, x, y, z, 1)
TranslationResult(x, y, z) == M4(<<1, 0, 0, 0,  0, 1, 0, 0,  0, 0, 1, 0,  x, y, z, 1>>)

\* translationMatrix(vec3) and translationMatrix(x, y, z).
translationMatrix(arg0, arg1, arg2) ==
    IF isVector(arg0) /\ arg0.type = "vec3" /\ arg1 = Missing /\ arg2 = Missing
    THEN TranslationResult(At(arg0, 0), At(arg0, 1), At(arg0, 2))
    ELSE IF IsNumber(arg0) /\ IsNumber(arg1) /\ IsNumber(arg2)
    THEN TranslationResult(arg0.v, arg1.v, arg2.v)
    ELSE Error("translationMatrix: expected a position as numbers or as a single vector")

translate(x, y, z) == translationMatrix(x, y, z)

\* ---------------------------------------------------------------- storage

\* The arrays of a run, by address: an array of numbers for a vector or for a
\* column of a matrix, and an array of column addresses for a matrix.  A
\* vector or matrix is known by its type tag and the address of its array;
\* numbers and errors are values of their own.
Ref(t, a) == [type |-> t, at |-> a]

Stored(h, r) == [heap |-> h, ref |-> r]

\* The value at a reference.
Load(h, r) ==
    IF isVector(r) THEN [type |-> r.type, v |-> h[r.at]]
    ELSE IF isMatrix(r) THEN [type |-> r.type, v |-> [c \in 1..Len(h[r.at]) |-> h[h[r.at][c]]]]
    ELSE r

LoadAll(h, rs) == [i \in 1..Len(rs) |-> Load(h, rs[i])]

\* const out = [0, 0, 0]: a new array of numbers, then filled.
NewVector(h, t, s) == Stored(Append(h, s), Ref(t, Len(h) + 1))

\* const out = [[1, 0], [0, 1]]: new column arrays in a new array, then
\* filled entry by entry.
NewMatrix(h, t, cols) ==
    Stored(h \o cols \o << [c \in 1..Len(cols) |-> Len(h) + c] >>, Ref(t, Len(h) + Len(cols) + 1))

\* What a constructor called with numbers returns.
New(h, value) ==
    IF isVector(value) THEN NewVector(h, value.type, value.v)
    ELSE IF isMatrix(value) THEN NewMatrix(h, value.type, value.v)
    ELSE Stored(h, value)

AllocateNext(rest, n) == [heap |-> n.heap, refs |-> Append(rest.refs, n.ref)]

AllocateArg(rest, value) == AllocateNext(rest, New(rest.heap, value))

\* The operands of a call, each in arrays of its own.
RECURSIVE Allocate(_)
Allocate(as) ==
    IF as = <<>> THEN [heap |-> <<>>, refs |-> <<>>]
    ELSE AllocateArg(Allocate(SubSeq(as, 1, Len(as) - 1)), as[Len(as)])

\* A matrix whose columns are the argument arrays themselves.
StoreColumns_shared(h, t, cs) ==
    Stored(Append(h, [i \in 1..Len(cs) |-> cs[i].at]), Ref(t, Len(h) + 1))

\* out[i][j] = ci[j] for each column vector ci.
StoreColumns(h, t, cs) == NewMatrix(h, t, [i \in 1..Len(cs) |-> h[cs[i].at]])

\* matN(...args) for the references args.
StoredMatrix(h, n, rs, value) ==
    IF Len(rs) = n /\ Len(rs) # 1 /\ isMatrix(value) /\ AllVectorsOfLength(n, LoadAll(h, rs))
    THEN StoreColumns(h, value.type, rs)
    ELSE New(h, value)

\* d[0] = -d[0]; d[1] = -d[1]; d[2] = -d[2]
NegateInPlace(h, d) == [h EXCEPT ![d.at] = [i \in 1..Len(h[d.at]) |-> 0 - h[d.at][i]]]

\* lookAtMatrix once d = normalize(sub(target, eyePosition)) is stored:
\* d is negated where it is, and the result is built from numbers.
StoredLookAtResult(d, value) == New(NegateInPlace(d.heap, d.ref), value)

StoredLookAt(h, eye, target, up) ==
    IF isMatrix(lookAtMatrix(eye, target, up))
    THEN StoredLookAtResult(New(h, normalize(sub(target, eye))), lookAtMatrix(eye, target, up))
    ELSE New(h, lookAtMatrix(eye, target, up))

\* result[i] = x or result[c][r] = x
WriteComponent(h, r, c, i, x) ==
    IF isVector(r) THEN [h EXCEPT ![r.at][i] = x]
    ELSE [h EXCEPT ![h[r.at][c]][i] = x]

\* ---------------------------------------------------------------- inputs

Vals == (0 - MaxVal)..MaxVal

\* The components of right-hand vector operands.
RightVals == {1, 2}

Tag(kind, n) == IF kind = "vec" THEN (IF n = 2 THEN "vec2" ELSE IF n = 3 THEN "vec3" ELSE "vec4")
                ELSE (IF n = 2 THEN "mat2" ELSE IF n = 3 THEN "mat3" ELSE "mat4")

Sizes == {2, 3, 4}

\* Every vector of length n with components in S, as vecN builds it.
Vectors(n, S) == { VecOf(Tag("vec", n), s) : s \in [1..n -> S] }

\* n-by-n matrices whose entries grow along the columns by a and along the
\* rows by b, with d added on the diagonal: rows and columns all differ.
Matrices(n) ==
    { MatOf(Tag("mat", n), [c \in 1..n |-> [r \in 1..n |->
          a * (c - 1) + b * (r - 1) + (IF c = r THEN d ELSE 0)]]) :
      a \in 0..MaxVal, b \in 0..MaxVal, d \in 0..MaxVal }

\* The identity plus the rank-one matrix u v^T: dense and not symmetric.
RankOne(n, u, v) ==
    MatOf(Tag("mat", n), [c \in 1..n |-> [r \in 1..n |->
        (IF c = r THEN 1 ELSE 0) + u[r] * v[c]]])

RankOnes(n) == { RankOne(n, u, v) : u \in [1..n -> Vals], v \in [1..n -> {0, 1}] }

Scalars == { Num(x) : x \in (0 - MaxVal - 1)..(MaxVal + 1) }

\* One value of every type an operand can have.
Representatives ==
    { V2(1, 2), V3(1, 2, 3), V4(1, 2, 3, 4), M2(<<1, 2, 3, 4>>), mat3(<<>>), mat4(<<>>),
      Num(2), Arr(<<1, 2>>) }

\* Operand pairs of one shape, a matrix with a vector of its size, a
\* container with a number (both orders), and every pair of types.
BinaryPairs ==
    UNION { Vectors(n, Vals) \X Vectors(n, RightVals) : n \in Sizes }
    \cup UNION { Matrices(n) \X Matrices(n) : n \in Sizes }
    \cup UNION { Matrices(n) \X Vectors(n, Vals) : n \in Sizes }
    \cup UNION { (Vectors(n, Vals) \cup Matrices(n)) \X Scalars : n \in Sizes }
    \cup UNION { Scalars \X (Vectors(n, Vals) \cup Matrices(n)) : n \in Sizes }
    \cup (Representatives \X Representatives)
    \cup (Vectors(3, Vals) \X Vectors(3, 0..MaxVal))

\* ------------------------------------------------------------- behaviour

Apply(name, result) ==
    /\ op = "input"
    /\ op' = name
    /\ out' = result
    /\ UNCHANGED args

DoAdd == Len(args) = 2 /\ Apply("add", add(args[1], args[2]))

DoSub == Len(args) = 2 /\ Apply("sub", sub(args[1], args[2]))

DoMult == Len(args) = 2 /\ Apply("mult", mult(args[1], args[2]))

DoMvMult == Len(args) = 2 /\ Apply("mv_mult", mv_mult(args[1], args[2]))

DoDot == Len(args) = 2 /\ Apply("dot", dot(args[1], args[2]))

DoCross == Len(args) = 2 /\ Apply("cross", cross(args[1], args[2]))

InitBinary == op = "input" /\ args \in BinaryPairs /\ out = None

NextBinary == DoAdd \/ DoSub \/ DoMult \/ DoMvMult \/ DoDot \/ DoCross

SpecBinary == InitBinary /\ [][NextBinary]_vars

\* The determinant by cofactor expansion along the first row of the matrix
\* whose columns are cols: the measure of which inputs inverse is exact on.
Determinant2(p, q) == p[1] * q[2] - q[1] * p[2]

Determinant3(p, q, r) ==
    p[1] * Determinant2(Tail(q), Tail(r))
    - q[1] * Determinant2(Tail(p), Tail(r))
    + r[1] * Determinant2(Tail(p), Tail(q))

Determinant4(p, q, r, s) ==
    p[1] * Determinant3(Tail(q), Tail(r), Tail(s))
    - q[1] * Determinant3(Tail(p), Tail(r), Tail(s))
    + r[1] * Determinant3(Tail(p), Tail(q), Tail(s))
    - s[1] * Determinant3(Tail(p), Tail(q), Tail(r))

Determinant(cols) ==
    IF Len(cols) = 2 THEN Determinant2(cols[1], cols[2])
    ELSE IF Len(cols) = 3 THEN Determinant3(cols[1], cols[2], cols[3])
    ELSE Determinant4(cols[1], cols[2], cols[3], cols[4])

\* The matrices 1.0 / det is an integer for.
Unimodular(m) == isMatrix(m) /\ Determinant(m.v) \in {1, -1}

MatrixInputs == UNION { RankOnes(n) \cup Matrices(n) : n \in Sizes }

DoDet == Len(args) = 1 /\ Apply("det", det(args[1]))

DoTranspose == Len(args) = 1 /\ Apply("transpose", transpose(args[1]))

DoInverse == Len(args) = 1 /\ Unimodular(args[1]) /\ Apply("inverse", inverse(args[1]))

\* mult(m, inv) once inv = inverse(m) has returned.
DoMultInverse ==
    /\ op = "inverse"
    /\ op' = "mult_inverse"
    /\ out' = mult(args[1], out)
    /\ UNCHANGED args

\* transpose(t) once t = transpose(m) has returned.
DoTransposeTranspose ==
    /\ op = "transpose"
    /\ op' = "transpose_transpose"
    /\ out' = transpose(out)
    /\ UNCHANGED args

InitMatrix == op = "input" /\ args \in { <<m>> : m \in MatrixInputs } /\ out = None

NextMatrix == DoDet \/ DoTranspose \/ DoInverse \/ DoMultInverse \/ DoTransposeTranspose

SpecMatrix == InitMatrix /\ [][NextMatrix]_vars

\* ------------------------------------------------- constructor behaviour

\* What one argument of a vector constructor can be: a number, a flat array
\* of numbers (the empty one included), a vector, or a matrix (refused).
FlatItems ==
    { Num(x) : x \in 0..MaxNum }
    \cup { Arr(<<>>), Arr(<<1>>), Arr(<<1, 2>>) }
    \cup { V2(1, 2), V2(2, 1), V3(8, 7, 9), V4(4, 5, 6, 7) }
    \cup { M2(<<1, 0, 0, 1>>) }

FlatArgLists == UNION { [1..k -> FlatItems] : k \in 0..MaxArgs }

\* n*n numbers that are all different, and n*n numbers with a single 1.
CountingNumbers(n, base) == [i \in 1..(n * n) |-> Num(base + i)]

OneHotNumbers(n, hot) == [i \in 1..(n * n) |-> Num(IF i = hot THEN 1 ELSE 0)]

NumberArgLists ==
    UNION { { CountingNumbers(n, base) : base \in 0..MaxNum }
            \cup { OneHotNumbers(n, hot) : hot \in 1..(n * n) } : n \in Sizes }

\* A matrix whose entries are all different and none 0 or 1.
DistinctMatrix(n) == MatOf(Tag("mat", n), [c \in 1..n |-> [r \in 1..n |-> 10 * c + r]])

MatrixArgLists ==
    { <<m>> : m \in UNION { Matrices(n) \cup {DistinctMatrix(n)} : n \in Sizes } }

\* The columns of a matrix as vectors.
ColumnsOf(m) == [c \in 1..Size(m) |-> VecOf(Tag("vec", Size(m)), m.v[c])]

\* What stands in for a column vector in a call that must fail: a number, a
\* plain array of n numbers, a matrix, and vectors of the other lengths.
NoColumns(n) ==
    { Num(1), Arr([i \in 1..n |-> i]), DistinctMatrix(n) }
        \cup { VecOf(Tag("vec", k), [i \in 1..k |-> i]) : k \in Sizes \ {n} }

\* n column vectors, and the same with one of them replaced.
ColumnArgLists ==
    UNION { { ColumnsOf(m) : m \in Matrices(n) \cup {DistinctMatrix(n)} }
            \cup { [ColumnsOf(DistinctMatrix(n)) EXCEPT ![i] = x] : i \in 1..n, x \in NoColumns(n) }
            : n \in Sizes }

\* n*n arguments of which one is not a number.
NotAllNumberArgLists ==
    UNION { { [CountingNumbers(n, 0) EXCEPT ![i] = x] :
                  i \in 1..(n * n), x \in {V2(1, 2), Arr(<<1>>)} } : n \in Sizes }

CtorArgLists ==
    FlatArgLists \cup NumberArgLists \cup MatrixArgLists \cup ColumnArgLists
        \cup NotAllNumberArgLists

DoVec2 == Apply("vec2", vec2(args))

DoVec3 == Apply("vec3", vec3(args))

DoVec4 == Apply("vec4", vec4(args))

DoMat2 == Apply("mat2", mat2(args))

DoMat3 == Apply("mat3", mat3(args))

DoMat4 == Apply("mat4", mat4(args))

DoMvMat4 == Apply("mv_mat4", mv_mat4(args))

InitCtor == op = "input" /\ args \in CtorArgLists /\ out = None

NextCtor == DoVec2 \/ DoVec3 \/ DoVec4 \/ DoMat2 \/ DoMat3 \/ DoMat4 \/ DoMvMat4

SpecCtor == InitCtor /\ [][NextCtor]_vars

\* ------------------------------------------------------ vector behaviour

\* The argument of magnitude, normalize and negate: every vector of the
\* model, and one value of every other type.
UnaryArgs ==
    { <<x>> : x \in UNION { Vectors(n, Vals) : n \in Sizes } \cup Representatives }

\* The numbers mixed, and the ratios: -1 to 2 in steps of 1/RatioUnit.
MixLeft == {0, 2}

MixRight == {10, -2}

Ratios == { Num(h) : h \in (0 - RatioUnit)..(2 * RatioUnit) }

\* Two numbers or two vectors of one shape with a ratio, and one value of
\* each type with every other and with a ratio that is or is not a number.
MixArgs ==
    { <<Num(x), Num(y), s>> : x \in MixLeft, y \in MixRight, s \in Ratios }
    \cup UNION { { <<u, v, s>> : u \in Vectors(n, MixLeft), v \in Vectors(n, MixRight),
                                 s \in Ratios } : n \in Sizes }
    \cup { <<u, v, s>> : u \in Representatives, v \in Representatives,
                         s \in {Num(1), Num(3), V2(1, 2)} }

DoMagnitude ==
    /\ Len(args) = 1
    /\ isVector(args[1]) => IsSquare((dot(args[1], args[1])).v)
    /\ Apply("magnitude", magnitude(args[1]))

DoNormalize ==
    /\ Len(args) = 1
    /\ ExactNormalize(args[1])
    /\ Apply("normalize", normalize(args[1]))

DoNegate == Len(args) = 1 /\ Apply("negate", negate(args[1]))

DoMix ==
    /\ Len(args) = 3
    /\ ExactMix(args[1], args[2], args[3])
    /\ Apply("mix", mix(args[1], args[2], args[3]))

InitVector == op = "input" /\ args \in UnaryArgs \cup MixArgs /\ out = None

NextVector == DoMagnitude \/ DoNormalize \/ DoNegate \/ DoMix

SpecVector == InitVector /\ [][NextVector]_vars

\* ------------------------------------------------ normalMatrix behaviour

\* The 3x3 identity bordered by a last column (b, d) and a bottom row (c, d):
\* a 4x4 matrix that is not affine.
Bordered(b, c, d) ==
    M4(<<1, 0, 0, c[1],  0, 1, 0, c[2],  0, 0, 1, c[3],  b[1], b[2], b[3], d>>)

Bordereds ==
    { Bordered(b, c, d) :
          b \in [1..3 -> 0..MaxVal], c \in [1..3 -> 0..MaxVal], d \in 0..(MaxVal + 1) }

\* The matrix normalMatrix inverts, given the flag.
NormalInverts(m, asMat3) == IF asMat3 THEN mat3(<<m>>) ELSE m

\* normalMatrix(m), normalMatrix(m, false) and normalMatrix(m, true).
NormalArgs ==
    LET ms == Bordereds \cup Matrices(4) \cup Matrices(3) \cup Representatives
    IN  { <<m>> : m \in ms } \cup { <<m, Bool(b)>> : m \in ms, b \in BOOLEAN }

DoNormalMatrix ==
    /\ Len(args) \in {1, 2}
    /\ isMatrix(args[1]) /\ Size(args[1]) >= 3 =>
           Unimodular(NormalInverts(args[1], AsMat3(args)))
    /\ Apply("normalMatrix", normalMatrix(args[1], AsMat3(args)))

DoLibNormalMatrix ==
    /\ Len(args) \in {1, 2}
    /\ isMatrix(args[1]) /\ Size(args[1]) = 4 => Unimodular(args[1])
    /\ Apply("lib_normalMatrix", lib_normalMatrix(args[1], AsMat3(args)))

InitNormal == op = "input" /\ args \in NormalArgs /\ out = None

NextNormal == DoNormalMatrix \/ DoLibNormalMatrix

SpecNormal == InitNormal /\ [][NextNormal]_vars

\* --------------------------------------------------- transform behaviour

\* The up vectors passed, besides passing none.
Ups == { V3(0, 1, 0), V3(1, 0, 0), V3(0, 0, 1), V3(1, 1, 0), Null, Num(1), V2(0, 1) }

\* lookAt(eye, at) and lookAt(eye, at, up).
LookAtArgs ==
    LET eyes == Vectors(3, Vals) \cup {Num(1)}
        ats  == Vectors(3, 0..MaxVal) \cup {V4(0, 0, 0, 1)}
    IN  { <<e, t>> : e \in eyes, t \in ats } \cup { <<e, t, u>> : e \in eyes, t \in ats, u \in Ups }

DoLookAtMatrix ==
    /\ args \in LookAtArgs
    /\ ExactLookAt(args[1], args[2], Arg(args, 3))
    /\ Apply("lookAtMatrix", lookAtMatrix(args[1], args[2], Arg(args, 3)))

DoLookAt ==
    /\ args \in LookAtArgs
    /\ ExactLookAt(args[1], args[2], Arg(args, 3))
    /\ Apply("lookAt", lookAt(args[1], args[2], Arg(args, 3)))

\* The angles in degrees: quarter turns.
Degrees == { 90 * k : k \in (0 - MaxVal)..(MaxVal + 2) }

\* The axes passed: vectors, letters, plain arrays of three numbers.
Axes ==
    Vectors(3, Vals) \cup { Str(s) : s \in {"x", "y", "z", "X", "w"} }
        \cup { Arr(<<1, 0, 0>>), Arr(<<0, 1, 0>>), Arr(<<0, 0, 1>>), V2(1, 0), Num(1) }

\* rotationMatrix(axis, radians).
RotationArgs ==
    { <<a, r>> : a \in Axes, r \in { PiOver180(d) : d \in Degrees } \cup {Num(0), V2(0, 0)} }

\* rotateX(d), rotateY(d), rotateZ(d), rotate(d), rotate(d, axis) and
\* rotate(d, x, y, z).
RotateArgs ==
    LET ds == { Num(d) : d \in Degrees } \cup {V3(90, 0, 0), Str("x")}
    IN  { <<d>> : d \in ds } \cup { <<d, a>> : d \in ds, a \in Axes }
            \cup { <<d, Num(x), Num(y), Num(z)>> : d \in ds, x \in Vals, y \in Vals, z \in Vals }

DoRotationMatrix ==
    /\ args \in RotationArgs
    /\ ExactRotation(args[1], args[2])
    /\ Apply("rotationMatrix", rotationMatrix(args[1], args[2]))

\* The axis rotate hands to rotationMatrix.
RotateAxis(as) == IF Len(as) = 4 THEN vec3(<<as[2], as[3], as[4]>>) ELSE Arg(as, 2)

DoRotate ==
    /\ args \in RotateArgs
    /\ ExactRotation(RotateAxis(args), radians(args[1]))
    /\ Apply("rotate", rotate(args))

DoRotateX == args \in RotateArgs /\ Len(args) = 1 /\ Apply("rotateX", rotateX(args[1]))

DoRotateY == args \in RotateArgs /\ Len(args) = 1 /\ Apply("rotateY", rotateY(args[1]))

DoRotateZ == args \in RotateArgs /\ Len(args) = 1 /\ Apply("rotateZ", rotateZ(args[1]))

\* rotationMatrix(axis, degrees) of lib.ts.
LibRotationArgs == { <<a, Num(d)>> : a \in Axes, d \in Degrees } \cup { <<Str("x"), Str("90")>> }

DoLibRotationMatrix ==
    /\ args \in LibRotationArgs
    /\ ExactRotation(args[1], radians(args[2]))
    /\ Apply("lib_rotationMatrix", lib_rotationMatrix(args[1], args[2]))

\* The planes of a viewing box, and one call with a plane that is no number
\* and one a plane short.
Planes == 0..(MaxVal + 1)

OrthographicArgs ==
    { <<Num(l), Num(r), Num(b), Num(t), Num(n), Num(f)>> :
          l \in Planes, r \in Planes, b \in Planes, t \in Planes, n \in Planes, f \in Planes }
        \cup { <<Num(0), Num(2), Num(0), Num(2), Num(0), V2(0, 2)>>,
               <<Num(0), Num(2), Num(0), Num(2), Num(0)>> }

DoOrthographicMatrix ==
    /\ args \in OrthographicArgs
    /\ ExactOrthographic(args)
    /\ Apply("orthographicMatrix",
             orthographicMatrix(args[1], args[2], args[3], args[4], args[5], Arg(args, 6)))

DoOrtho ==
    /\ args \in OrthographicArgs
    /\ ExactOrthographic(args)
    /\ Apply("ortho", ortho(args[1], args[2], args[3], args[4], args[5], Arg(args, 6)))

\* translationMatrix(v), translationMatrix(x, y), translationMatrix(x, y, z).
TranslationArgs ==
    { <<v>> : v \in Vectors(3, RightVals) \cup {V2(1, 2), V4(1, 2, 3, 1)} }
        \cup { <<Num(x), Num(y)>> : x \in RightVals, y \in RightVals }
        \cup { <<Num(x), Num(y), z>> :
                  x \in RightVals, y \in RightVals, z \in { Num(n) : n \in RightVals } \cup {V2(1, 2)} }

\* The offsets x, y, z and the point (px, py, pz, 1) they move.
MovedPointArgs ==
    { <<Num(x), Num(y), Num(z), p>> :
          x \in RightVals, y \in RightVals, z \in RightVals,
          p \in { VecOf("vec4", s \o <<1>>) : s \in [1..3 -> 0..MaxVal] } }

DoTranslationMatrix ==
    /\ args \in TranslationArgs
    /\ Apply("translationMatrix", translationMatrix(args[1], Arg(args, 2), Arg(args, 3)))

DoTranslate ==
    /\ args \in TranslationArgs
    /\ Apply("translate", translate(args[1], Arg(args, 2), Arg(args, 3)))

\* mult(translationMatrix(x, y, z), p)
DoMultTranslation ==
    /\ args \in MovedPointArgs
    /\ Apply("mult_translation", mult(translationMatrix(args[1], args[2], args[3]), args[4]))

TransformArgs ==
    LookAtArgs \cup RotationArgs \cup RotateArgs \cup LibRotationArgs \cup OrthographicArgs
        \cup TranslationArgs \cup MovedPointArgs

InitTransform == op = "input" /\ args \in TransformArgs /\ out = None

NextTransform ==
    \/ DoLookAtMatrix \/ DoLookAt
    \/ DoRotationMatrix \/ DoRotate \/ DoRotateX \/ DoRotateY \/ DoRotateZ
    \/ DoLibRotationMatrix
    \/ DoOrthographicMatrix \/ DoOrtho
    \/ DoTranslationMatrix \/ DoTranslate \/ DoMultTranslation

SpecTransform == InitTransform /\ [][NextTransform]_vars

\* ----------------------------------------------------- storage behaviour

\* The vector of length n with every component x.
Uniform(n, x) == VecOf(Tag("vec", n), [i \in 1..n |-> x])

\* The operand lists of the calls whose storage is followed.
StorageArgs ==
    UNION { { <<u, Uniform(n, 2)>> : u \in Vectors(n, 0..MaxVal) } : n \in Sizes }
    \cup UNION { { <<m, DistinctMatrix(n)>> : m \in Matrices(n) } : n \in Sizes }
    \cup UNION { { <<m, Uniform(n, 2)>> : m \in Matrices(n) } : n \in Sizes }
    \cup UNION { { <<v>> : v \in Vectors(n, 0..MaxVal) } : n \in Sizes }
    \cup { <<m>> : m \in UNION { Matrices(n) : n \in Sizes } \cup RankOnes(2)
                            \cup { RankOne(3, u, <<1, 0, 1>>) : u \in [1..3 -> Vals] } }
    \cup { ColumnsOf(m) : m \in UNION { Matrices(n) : n \in Sizes } }
    \cup UNION { { <<u, Uniform(n, 10), s>> : u \in Vectors(n, MixLeft), s \in Ratios } : n \in Sizes }
    \cup { <<e, V3(0, 0, 0)>> : e \in Vectors(3, Vals) }
    \cup { <<e, V3(0, 0, 0), V3(0, 1, 0)>> : e \in Vectors(3, Vals) }

\* The heap and the references of the operands when the call starts.
Heap == Allocate(args).heap

Refs == Allocate(args).refs

\* The call returns: the heap it leaves, the operands and the result.
Return(name, res) ==
    /\ op = "input"
    /\ op' = name
    /\ out' = [type |-> "stored", of |-> name, heap |-> res.heap, operands |-> Refs,
               result |-> res.ref]
    /\ UNCHANGED args

DoStoredAdd == Len(args) = 2 /\ Return("add", New(Heap, add(args[1], args[2])))

DoStoredSub == Len(args) = 2 /\ Return("sub", New(Heap, sub(args[1], args[2])))

DoStoredMult == Len(args) = 2 /\ Return("mult", New(Heap, mult(args[1], args[2])))

DoStoredNegate == Len(args) = 1 /\ Return("negate", New(Heap, negate(args[1])))

DoStoredNormalize ==
    /\ Len(args) = 1 /\ ExactNormalize(args[1])
    /\ Return("normalize", New(Heap, normalize(args[1])))

DoStoredMix ==
    /\ Len(args) = 3 /\ IsNumber(args[3]) /\ ExactMix(args[1], args[2], args[3])
    /\ Return("mix", New(Heap, mix(args[1], args[2], args[3])))

DoStoredTranspose == Len(args) = 1 /\ Return("transpose", New(Heap, transpose(args[1])))

DoStoredInverse ==
    /\ Len(args) = 1 /\ Unimodular(args[1])
    /\ Return("inverse", New(Heap, inverse(args[1])))

DoStoredVec2 == Return("vec2", New(Heap, vec2(args)))

DoStoredVec3 == Return("vec3", New(Heap, vec3(args)))

DoStoredVec4 == Return("vec4", New(Heap, vec4(args)))

DoStoredMat2 == Return("mat2", StoredMatrix(Heap, 2, Refs, mat2(args)))

DoStoredMat3 == Return("mat3", StoredMatrix(Heap, 3, Refs, mat3(args)))

DoStoredMat4 == Return("mat4", StoredMatrix(Heap, 4, Refs, mat4(args)))

DoStoredNormalMatrix ==
    /\ Len(args) = 1 /\ isMatrix(args[1]) /\ Size(args[1]) = 3 /\ Unimodular(args[1])
    /\ Return("normalMatrix", New(Heap, normalMatrix(args[1], FALSE)))

DoStoredLookAtMatrix ==
    /\ Len(args) \in {2, 3} /\ isVector(args[1]) /\ isVector(args[2])
    /\ ExactLookAt(args[1], args[2], Arg(args, 3))
    /\ Return("lookAtMatrix", StoredLookAt(Heap, args[1], args[2], Arg(args, 3)))

\* The value written into a result later on: no component of an operand.
Written == 99

\* A later write to one component of the result.
DoWriteResult ==
    /\ out.type = "stored" /\ op # "write"
    /\ isVector(out.result) \/ isMatrix(out.result)
    /\ \E c \in 1..Len(out.heap[out.result.at]) :
       \E i \in 1..(IF isVector(out.result) THEN 1 ELSE Len(out.heap[out.result.at])) :
           out' = [out EXCEPT !.heap = WriteComponent(out.heap, out.result,
                                           c, IF isVector(out.result) THEN c ELSE i, Written)]
    /\ op' = "write"
    /\ UNCHANGED args

InitStorage == op = "input" /\ args \in StorageArgs /\ out = None

NextStorage ==
    \/ DoStoredAdd \/ DoStoredSub \/ DoStoredMult \/ DoStoredNegate \/ DoStoredNormalize
    \/ DoStoredMix \/ DoStoredTranspose \/ DoStoredInverse
    \/ DoStoredVec2 \/ DoStoredVec3 \/ DoStoredVec4
    \/ DoStoredMat2 \/ DoStoredMat3 \/ DoStoredMat4
    \/ DoStoredNormalMatrix \/ DoStoredLookAtMatrix
    \/ DoWriteResult

SpecStorage == InitStorage /\ [][NextStorage]_vars

\* ------------------------------------------------------------- throttle

\* The arguments of the calls.
CallArgs == {1, 2}

\* throttle(func, wait) has returned a function.  The closure holds pending
\* and trailing; timer is the time the one outstanding timeout is due and held
\* the arguments its callback closed over.  execs lists the executions of
\* func with their times, and missed counts the calls the open window has
\* seen; now is the clock.
ThrottleInit ==
    [type |-> "throttle", now |-> 0, pending |-> FALSE, trailing |-> FALSE,
     timer |-> 0, held |-> 0, missed |-> 0, calls |-> 0, execs |-> <<>>]

\* func(...args) at the present time.
Executed(st, a) == Append(st.execs, [t |-> st.now, a |-> a])

\* The returned function called with the argument a.
ThrottledCall(st, a) ==
    IF ~st.pending
    THEN [st EXCEPT !.execs = Executed(st, a), !.pending = TRUE,
                    !.timer = st.now + Wait, !.held = a, !.missed = 0,
                    !.calls = st.calls + 1]
    ELSE [st EXCEPT !.trailing = TRUE, !.missed = st.missed + 1, !.calls = st.calls + 1]

\* A callback that executes func whether or not a call was missed.
ThrottleTimeout_always(st) ==
    [st EXCEPT !.pending = FALSE, !.trailing = FALSE, !.execs = Executed(st, st.held)]

\* The callback handed to setTimeout.
ThrottleTimeout(st) ==
    IF st.trailing
    THEN [st EXCEPT !.pending = FALSE, !.trailing = FALSE, !.execs = Executed(st, st.held)]
    ELSE [st EXCEPT !.pending = FALSE]

\* A step of the page: op names it, out is the state it leaves.
Step(name, st) == op' = name /\ out' = st /\ UNCHANGED args

DoThrottledCall ==
    /\ out.type = "throttle" /\ out.calls < MaxCalls
    /\ \E a \in CallArgs : Step("call", ThrottledCall(out, a))

DoThrottleTimeout ==
    /\ out.type = "throttle" /\ out.pending /\ out.timer = out.now
    /\ Step("timeout", ThrottleTimeout(out))

\* A millisecond passes; a timeout that is due runs first.
DoThrottleTick ==
    /\ out.type = "throttle" /\ out.now < MaxTime
    /\ ~(out.pending /\ out.timer = out.now)
    /\ Step("tick", [out EXCEPT !.now = out.now + 1])

InitThrottle == op = "throttle" /\ args = <<Num(Wait)>> /\ out = ThrottleInit

NextThrottle == DoThrottledCall \/ DoThrottleTimeout \/ DoThrottleTick

SpecThrottle == InitThrottle /\ [][NextThrottle]_vars

\* ------------------------------------------------------------- debounce
\* The state of one debounce(func, wait): the clock, the host's set of
\* timers that have not fired, the closure's timer (no timer, or the one of
\* the most recent call), and what has been observed: the time and argument
\* of the most recent call and the executions of func.
DebounceInit ==
    [type |-> "debounce", now |-> 0, timers |-> {}, timer |-> {},
     last |-> 0, lastArg |-> 0, calls |-> 0, execs |-> <<>>]

\* setTimeout(() => func(...args), wait)
SetTimeout(st, a) == {[due |-> st.now + Wait, a |-> a]}

\* A call that sets its timer without clearing the one before.
DebouncedCall_uncleared(st, a) ==
    [st EXCEPT !.timers = st.timers \cup SetTimeout(st, a), !.timer = SetTimeout(st, a),
               !.last = st.now, !.lastArg = a, !.calls = st.calls + 1]

\* The function debounce returns, called with argument a.
DebouncedCall(st, a) ==
    [st EXCEPT !.timers = (st.timers \ st.timer) \cup SetTimeout(st, a),
               !.timer = SetTimeout(st, a),
               !.last = st.now, !.lastArg = a, !.calls = st.calls + 1]

\* The callback of timer tm.
DebounceTimeout(st, tm) ==
    [st EXCEPT !.timers = st.timers \ {tm}, !.execs = Executed(st, tm.a)]

Due(st) == {tm \in st.timers : tm.due = st.now}

DoDebouncedCall ==
    /\ out.type = "debounce"
    /\ out.calls < MaxCalls
    /\ \E a \in CallArgs : Step("call", DebouncedCall(out, a))

DoDebounceTimeout ==
    /\ out.type = "debounce"
    /\ \E tm \in Due(out) : Step("timeout", DebounceTimeout(out, tm))

DoDebounceTick ==
    /\ out.type = "debounce"
    /\ out.now < MaxTime
    /\ Due(out) = {}
    /\ Step("tick", [out EXCEPT !.now = out.now + 1])

InitDebounce == op = "debounce" /\ args = <<Num(Wait)>> /\ out = DebounceInit
NextDebounce == DoDebouncedCall \/ DoDebounceTimeout \/ DoDebounceTick
SpecDebounce == InitDebounce /\ [][NextDebounce]_vars

\* -------------------------------------------------------------- properties
\* A vector or matrix as the array object the constructor returns: its
\* indexed elements and its named own properties.  A property is a data
\* property holding a value or an accessor whose getter and setter read
\* and write this[at]; attributes a descriptor leaves out are false.
DataProperty(value, writable, enumerable, configurable) ==
    [kind |-> "data", value |-> value, at |-> 0, writable |-> writable,
     enumerable |-> enumerable, configurable |-> configurable]

\* A type property that may be assigned.
TypeProperty_writable(tag) == DataProperty(tag, TRUE, FALSE, FALSE)

\* type: { value: tag, writable: false, enumerable: false }
TypeProperty(tag) == DataProperty(tag, FALSE, FALSE, FALSE)

\* An accessor whose getter and setter use index 0 whatever its name.
Accessor_first(i) ==
    [kind |-> "accessor", value |-> 0, at |-> 0, writable |-> FALSE,
     enumerable |-> FALSE, configurable |-> FALSE]

\* x: { get() { return this[i]; }, set(n) { this[i] = n; }, enumerable: false }
Accessor(i) ==
    [kind |-> "accessor", value |-> 0, at |-> i, writable |-> FALSE,
     enumerable |-> FALSE, configurable |-> FALSE]

Names == <<"x", "y", "z", "w">>
NameIndex(name) == CHOOSE i \in 0..3 : Names[i + 1] = name

\* The own properties the constructor defines on a value of the given tag.
DefinedProperties(tag) ==
    LET n == IF tag = "vec2" THEN 2 ELSE IF tag = "vec3" THEN 3 ELSE IF tag = "vec4" THEN 4 ELSE 0
    IN  [name \in {"type"} \cup {Names[i] : i \in 1..n} |->
            IF name = "type" THEN TypeProperty(tag) ELSE Accessor(NameIndex(name))]

\* The object a constructor returns for the value x; made records the tag
\* it was given, which settles what its elements are.
Object(x) ==
    [type |-> "object", made |-> x.type, elems |-> x.v, props |-> DefinedProperties(x.type),
     failed |-> FALSE, writes |-> 0]

\* o[name]
Get(o, name) ==
    IF name \notin DOMAIN o.props THEN Undefined
    ELSE IF o.props[name].kind = "data" THEN o.props[name].value
    ELSE o.elems[o.props[name].at + 1]

\* o[i] = n for an index inside a vector, o[c][r] = n inside a matrix.
SetIndex(o, c, r, n) ==
    IF o.made \in {"mat2", "mat3", "mat4"}
    THEN [o EXCEPT !.elems[c + 1][r + 1] = n, !.failed = FALSE]
    ELSE [o EXCEPT !.elems[c + 1] = n, !.failed = FALSE]

\* o[name] = n: an accessor's setter runs, a writable data property takes
\* the value, one that is not writable rejects it (a TypeError in strict
\* code, ignored otherwise), and a name the object lacks becomes an ordinary
\* property.
Set(o, name, n) ==
    IF name \notin DOMAIN o.props
    THEN [o EXCEPT !.props = [k \in DOMAIN o.props \cup {name} |->
                                 IF k = name THEN DataProperty(n, TRUE, TRUE, TRUE)
                                 ELSE o.props[k]],
                   !.failed = FALSE]
    ELSE IF o.props[name].kind = "accessor"
    THEN [o EXCEPT !.elems[o.props[name].at + 1] = n, !.failed = FALSE]
    ELSE IF o.props[name].writable
    THEN [o EXCEPT !.props[name].value = n, !.failed = FALSE]
    ELSE [o EXCEPT !.failed = TRUE]

\* delete o[name]
Delete(o, name) ==
    IF name \notin DOMAIN o.props THEN [o EXCEPT !.failed = FALSE]
    ELSE IF o.props[name].configurable
    THEN [o EXCEPT !.props = [k \in DOMAIN o.props \ {name} |-> o.props[k]], !.failed = FALSE]
    ELSE [o EXCEPT !.failed = TRUE]

\* Object.keys(o): the indices and the enumerable named properties.
Keys(o) ==
    {[index |-> i - 1] : i \in 1..Len(o.elems)}
        \cup {[name |-> k] : k \in {k \in DOMAIN o.props : o.props[k].enumerable}}

\* The object as the operations see it: its type property and its elements.
Value(o) == [type |-> Get(o, "type"), v |-> o.elems]

WriteVals == {5, 6}
Counted(o) == [o EXCEPT !.writes = o.writes + 1]
Rows(o) == IF o.made \in {"mat2", "mat3", "mat4"} THEN 0..(Len(o.elems) - 1) ELSE {0}

DoSetIndex ==
    /\ out.type = "object" /\ out.writes < MaxWrites
    /\ \E c \in 0..(Len(out.elems) - 1) : \E r \in Rows(out) : \E n \in WriteVals :
           Step("set_index", Counted(SetIndex(out, c, r, n)))

DoSetName ==
    /\ out.type = "object" /\ out.writes < MaxWrites
    /\ \E i \in 1..4 : \E n \in WriteVals : Step(Names[i], Counted(Set(out, Names[i], n)))

DoAssignType ==
    /\ out.type = "object" /\ out.writes < MaxWrites
    /\ \E tag \in {"vec4", "mat2", "string"} : Step("assign_type", Counted(Set(out, "type", tag)))

DoDeleteType ==
    /\ out.type = "object" /\ out.writes < MaxWrites
    /\ Step("delete_type", Counted(Delete(out, "type")))

Constructed == {vec2(<<>>), vec3(<<>>), vec4(<<>>), mat2(<<>>), mat3(<<>>), mat4(<<>>)}
InitObject == op = "construct" /\ args = <<>> /\ out \in {Object(x) : x \in Constructed}
NextObject == DoSetIndex \/ DoSetName \/ DoAssignType \/ DoDeleteType
SpecObject == InitObject /\ [][NextObject]_vars

\* ---------------------------------------------------------------- canvas
\* The window (innerWidth, innerHeight, devicePixelRatio), the canvas
\* (width, height), the variables initCanvas closes over (baseWidth,
\* baseHeight, dpi), the state of the throttled resize listener (pending,
\* trailing) and the arguments of the last call of options.onResize.

\* onDPIChange(): the ratio is read anew, the canvas is sized from the base
\* size, onResize is called, and the listener is added again for the ratio
\* read.
OnDPIChange(st) ==
    LET dpi == IF st.devicePixelRatio = 0 THEN 1 ELSE st.devicePixelRatio
    IN  [st EXCEPT !.dpi = dpi,
                   !.width = st.baseWidth * dpi,
                   !.height = st.baseHeight * dpi,
                   !.resized = <<st.baseWidth * dpi, st.baseHeight * dpi>>]

\* initCanvas(canvas, {fullscreen: true, retina: true, onResize}) in a
\* window of the given size and ratio.
initCanvas(innerWidth, innerHeight, devicePixelRatio) ==
    OnDPIChange([type |-> "canvas",
                 innerWidth |-> innerWidth, innerHeight |-> innerHeight,
                 devicePixelRatio |-> devicePixelRatio,
                 baseWidth |-> innerWidth, baseHeight |-> innerHeight, dpi |-> 0,
                 width |-> 0, height |-> 0, resized |-> <<>>,
                 pending |-> FALSE, trailing |-> FALSE])

\* The function handed to throttle.
ResizeHandler(st) ==
    [st EXCEPT !.width = st.innerWidth * st.dpi,
               !.height = st.innerHeight * st.dpi,
               !.resized = <<st.innerWidth * st.dpi, st.innerHeight * st.dpi>>]

\* The throttled function called as the listener of a resize event.
ThrottledResize(st) ==
    IF ~st.pending THEN [ResizeHandler(st) EXCEPT !.pending = TRUE]
    ELSE [st EXCEPT !.trailing = TRUE]

\* The timer callback of throttle.
ResizeTimeout(st) ==
    IF st.trailing THEN ResizeHandler([st EXCEPT !.pending = FALSE, !.trailing = FALSE])
    ELSE [st EXCEPT !.pending = FALSE]

Sides == 1..MaxSide
PixelRatios == 1..MaxRatio

\* The window is resized and its resize event reaches the listener.
DoWindowResize ==
    /\ out.type = "canvas"
    /\ \E w \in Sides : \E h \in Sides :
           /\ <<w, h>> # <<out.innerWidth, out.innerHeight>>
           /\ Step("resize", ThrottledResize([out EXCEPT !.innerWidth = w, !.innerHeight = h]))

\* The 100 ms of the throttle have passed.
DoResizeTimeout ==
    /\ out.type = "canvas"
    /\ out.pending
    /\ Step("timeout", ResizeTimeout(out))

\* The device pixel ratio changes: the window is moved to another screen
\* or the page is zoomed.
DoRatioChange ==
    /\ out.type = "canvas"
    /\ \E r \in PixelRatios :
           /\ r # out.devicePixelRatio
           /\ Step("ratio", [out EXCEPT !.devicePixelRatio = r])

\* The media query (resolution: <dpi>dppx) has stopped matching and its
\* change event reaches onDPIChange.
DoDPIChange ==
    /\ out.type = "canvas"
    /\ out.devicePixelRatio # out.dpi
    /\ Step("dpi_change", OnDPIChange(out))

InitCanvas ==
    /\ op = "initCanvas"
    /\ args = <<>>
    /\ out \in {initCanvas(w, h, r) : w \in Sides, h \in Sides, r \in PixelRatios}
NextCanvas == DoWindowResize \/ DoResizeTimeout \/ DoRatioChange \/ DoDPIChange
SpecCanvas == InitCanvas /\ [][NextCanvas]_vars

\* ---------------------------------------------------------------- claims

\* The first and second operand and their common size, where they have one.
A == args[1]

B == args[2]

\* The standard product A*B under column-major storage.
StandardProduct(a, b) ==
    [type |-> a.type,
     v |-> [j \in 1..Size(a) |-> [i \in 1..Size(a) |->
              SumTo(LAMBDA k : a.v[k][i] * b.v[j][k], Size(a))]]]

\* The standard matrix-vector product M*v under column-major storage.
StandardMatVec(m, x) ==
    [type |-> x.type,
     v |-> [i \in 1..Size(m) |-> SumTo(LAMBDA k : m.v[k][i] * x.v[k], Size(m))]]

\* u with every component or entry multiplied by s.
Scaled(u, s) ==
    [type |-> u.type,
     v |-> IF isVector(u) THEN [i \in 1..Size(u) |-> u.v[i] * s]
           ELSE [c \in 1..Size(u) |-> [r \in 1..Size(u) |-> u.v[c][r] * s]]]

SameShape(a, b) ==
    \/ isVector(a) /\ isVector(b) /\ a.type = b.type
    \/ isMatrix(a) /\ isMatrix(b) /\ a.type = b.type

\* a and b combined entry by entry with sign 1 (sum) or -1 (difference).
ElementWise(a, b, sign) ==
    [type |-> a.type,
     v |-> IF isVector(a) THEN [i \in 1..Size(a) |-> a.v[i] + sign * b.v[i]]
           ELSE [c \in 1..Size(a) |-> [r \in 1..Size(a) |->
                    a.v[c][r] + sign * b.v[c][r]]]]

\* C1: for two matrices A and B of the same shape, mult(A, B) is the matrix
\* R of that shape with R[j][i] = sum over k of A[k][i] * B[j][k].
C1_MultIsStandardProduct ==
    (op = "mult" /\ isMatrix(A) /\ isMatrix(B) /\ A.type = B.type)
        => out = StandardProduct(A, B)

\* What mult of two same-shape matrices returns: the product taken in the
\* other order, R[j][i] = sum over k of B[k][i] * A[j][k].
C1_MultIsReversedProduct ==
    (op = "mult" /\ isMatrix(A) /\ isMatrix(B) /\ A.type = B.type)
        => out = StandardProduct(B, A)

\* C2: for a matrix M of size N and a vector v of length N, mult(M, v) is the
\* vector r with r[i] = sum over k of M[k][i] * v[k].
C2_MultIsStandardMatVec ==
    (op = "mult" /\ isMatrix(A) /\ isVector(B) /\ Size(A) = Size(B))
        => out = StandardMatVec(A, B)

\* What mult of a matrix and a vector returns: the product with the
\* transposed matrix, r[i] = sum over k of M[i][k] * v[k].
C2_MultIsTransposedMatVec ==
    (op = "mult" /\ isMatrix(A) /\ isVector(B) /\ Size(A) = Size(B))
        => out = StandardMatVec(transpose(A), B)

\* C9: add and sub return the element-wise sum or difference with the shape
\* tag of the first operand when both operands are vectors of one shape or
\* matrices of one shape, and raise an error for every other operand pair.
C9_AddSubElementWiseOrError ==
    (op \in {"add", "sub"}) =>
        IF SameShape(A, B)
        THEN out = ElementWise(A, B, IF op = "add" THEN 1 ELSE -1)
        ELSE IsError(out)

\* A difference of two different 3x3 matrices that changes the first operand.
C9_Witness ==
    /\ op = "sub"
    /\ A.type = "mat3" /\ B.type = "mat3"
    /\ out.type = "mat3" /\ out # A
    /\ \A c \in 1..3, r \in 1..3 : out.v[c][r] = A.v[c][r] - B.v[c][r]

\* An addition refused because the operands differ in shape.
C9_WitnessError ==
    /\ op = "add"
    /\ A.type = "vec3" /\ B.type = "vec4"
    /\ IsError(out)

\* C10: for a vector or matrix u and a number s, mult(u, s) and mult(s, u)
\* return u's shape with every component or entry multiplied by s, in the
\* current operations and in those of the mv/ directory alike.
C10_ScalarMultScalesAll ==
    /\ (op \in {"mult", "mv_mult"} /\ (isVector(A) \/ isMatrix(A)) /\ IsNumber(B))
            => out = Scaled(A, B.v)
    /\ (op \in {"mult", "mv_mult"} /\ IsNumber(A) /\ (isVector(B) \/ isMatrix(B)))
            => out = Scaled(B, A.v)

\* The same of the current operations alone.
C10_CurrentMultScalesAll ==
    /\ (op = "mult" /\ (isVector(A) \/ isMatrix(A)) /\ IsNumber(B))
            => out = Scaled(A, B.v)
    /\ (op = "mult" /\ IsNumber(A) /\ (isVector(B) \/ isMatrix(B)))
            => out = Scaled(B, A.v)

\* C3: det(m) is the mathematical determinant of the matrix whose column k
\* is m[k], for the shapes 2x2, 3x3 and 4x4.
C3_DetIsDeterminant ==
    (op = "det" /\ isMatrix(A)) => out = Num(Determinant(A.v))

\* The same of the shapes 2x2 and 3x3 alone.
C3_DetIsDeterminantUpTo3 ==
    (op = "det" /\ A.type \in {"mat2", "mat3"}) => out = Num(Determinant(A.v))

\* C4: for a matrix m with determinant 1 or -1, of shape 2x2, 3x3 or 4x4,
\* mult(m, inverse(m)) is the identity matrix of m's shape.
C4_MultInverseIsIdentity ==
    (op = "mult_inverse" /\ Unimodular(A))
        => out = [type |-> A.type, v |-> Ident(Size(A))]

\* A 4x4 matrix that is neither symmetric nor its own inverse, multiplied by
\* its inverse.
C4_Witness ==
    /\ op = "mult_inverse"
    /\ A.type = "mat4"
    /\ Unimodular(A)
    /\ inverse(A) # A
    /\ transpose(A) # A
    /\ out.v = Ident(4)

\* The size N of the result of the constructor called name.
CtorSize(name) ==
    IF name \in {"vec2", "mat2"} THEN 2
    ELSE IF name \in {"vec3", "mat3"} THEN 3 ELSE 4

CtorTag(name) == IF name = "mv_mat4" THEN "mat4" ELSE name

\* C5: matN called with exactly N*N numbers a returns the matrix m with
\* m[c][r] = a[N*c + r], in the current constructors and in mat4 of the mv/
\* directory alike.
C5_NumbersAreColumnMajor ==
    (/\ op \in {"mat2", "mat3", "mat4", "mv_mat4"}
     /\ Len(args) = CtorSize(op) * CtorSize(op)
     /\ AllNumbers(args))
        => /\ out.type = CtorTag(op)
           /\ \A c \in 0..(CtorSize(op) - 1), r \in 0..(CtorSize(op) - 1) :
                  At2(out, c, r) = args[CtorSize(op) * c + r + 1].v

\* The same of the current constructors alone.
C5_CurrentNumbersAreColumnMajor ==
    (/\ op \in {"mat2", "mat3", "mat4"}
     /\ Len(args) = CtorSize(op) * CtorSize(op)
     /\ AllNumbers(args))
        => /\ out.type = op
           /\ \A c \in 0..(CtorSize(op) - 1), r \in 0..(CtorSize(op) - 1) :
                  At2(out, c, r) = args[CtorSize(op) * c + r + 1].v

\* C6: mat2, mat3 or mat4 called with one matrix copies the source's entries
\* below min(N, size of the source) in both indices, keeps the identity in
\* every other entry, and raises no error.
C6_CopiesTopLeftBlock ==
    (op \in {"mat2", "mat3", "mat4"} /\ Len(args) = 1 /\ isMatrix(A))
        => /\ out.type = op
           /\ Len(out.v) = CtorSize(op)
           /\ \A c \in 1..CtorSize(op), r \in 1..CtorSize(op) :
                  out.v[c][r] = IF c <= Min(CtorSize(op), Size(A))
                                   /\ r <= Min(CtorSize(op), Size(A))
                                THEN A.v[c][r]
                                ELSE IF c = r THEN 1 ELSE 0

\* A 2x2 matrix of four different entries widened to 4x4.
C6_Witness ==
    /\ op = "mat4"
    /\ args = <<DistinctMatrix(2)>>
    /\ out.v = << <<11, 12, 0, 0>>, <<21, 22, 0, 0>>, <<0, 0, 1, 0>>, <<0, 0, 0, 1>> >>

\* A 4x4 matrix of sixteen different entries cut to 2x2.
C6_WitnessTruncated ==
    /\ op = "mat2"
    /\ args = <<DistinctMatrix(4)>>
    /\ out.v = << <<11, 12>>, <<21, 22>> >>

\* The numbers an argument list supplies, in argument order.
NumbersOf(a) == IF IsNumber(a) THEN <<a.v>> ELSE a.v

RECURSIVE Flattened(_)
Flattened(as) ==
    IF as = <<>> THEN <<>>
    ELSE Flattened(SubSeq(as, 1, Len(as) - 1)) \o NumbersOf(as[Len(as)])

\* An argument list of numbers, flat arrays of numbers and vectors.
FlatNumbers(as) ==
    \A i \in 1..Len(as) : as[i].type \in {"number", "array", "vec2", "vec3", "vec4"}

\* C7: vecN called with numbers, flat arrays and vectors that together
\* supply at least N numbers returns the first N of them in argument order.
C7_FirstNFlattened ==
    (/\ op \in {"vec2", "vec3", "vec4"}
     /\ FlatNumbers(args)
     /\ Len(Flattened(args)) >= CtorSize(op))
        => out = [type |-> op, v |-> SubSeq(Flattened(args), 1, CtorSize(op))]

\* vec4(vec3(8,7,9), vec2(2,1)) is vec4(8,7,9,2): the fifth value is ignored.
C7_Witness ==
    /\ op = "vec4"
    /\ args = <<V3(8, 7, 9), V2(2, 1)>>
    /\ out = V4(8, 7, 9, 2)

\* vec3(vec2(1,2), 3) is vec3(1,2,3).
C7_WitnessVec3 ==
    /\ op = "vec3"
    /\ args = <<V2(1, 2), Num(3)>>
    /\ out = V3(1, 2, 3)

\* C8: vec2, vec3 or vec4 called with at least one argument, not with a
\* single number, and with fewer than N numbers in all, raises an error.
C8_TooFewValuesIsError ==
    (/\ op \in {"vec2", "vec3", "vec4"}
     /\ Len(args) >= 1
     /\ ~(Len(args) = 1 /\ IsNumber(args[1]))
     /\ FlatNumbers(args)
     /\ Len(Flattened(args)) < CtorSize(op))
        => IsError(out)

\* The same of the calls that supply at least one number.
C8_TooFewButSomeIsError ==
    (/\ op \in {"vec2", "vec3", "vec4"}
     /\ Len(args) >= 1
     /\ ~(Len(args) = 1 /\ IsNumber(args[1]))
     /\ FlatNumbers(args)
     /\ Len(Flattened(args)) \in 1..(CtorSize(op) - 1))
        => IsError(out)

\* mult(mat2(0,0,1,1), mat2(0,1,0,1)) returns mat2(0,0,0,2); the standard
\* product is mat2(1,1,1,1).
C1_FailingInput ==
    /\ op = "mult"
    /\ args = <<M2(<<0, 0, 1, 1>>), M2(<<0, 1, 0, 1>>)>>
    /\ out = M2(<<0, 0, 0, 2>>)
    /\ StandardProduct(A, B) = M2(<<1, 1, 1, 1>>)

\* mult(mat2(0,0,1,1), vec2(-1,0)) returns vec2(0,-1); the standard product
\* is vec2(0,0).
C2_FailingInput ==
    /\ op = "mult"
    /\ args = <<M2(<<0, 0, 1, 1>>), V2(-1, 0)>>
    /\ out = V2(0, -1)
    /\ StandardMatVec(A, B) = V2(0, 0)

\* det of a 4x4 matrix of determinant -2 returns -4.
C3_FailingInput ==
    /\ op = "det"
    /\ args = <<M4(<<0, -1, -1, -1, -1, 0, -1, -1, -1, -1, 0, -1, 0, 0, 0, 1>>)>>
    /\ out = Num(-4)
    /\ Determinant(A.v) = -2

\* mat4(1, ..., 16) of the mv/ directory: column 2 holds the arguments 7..10
\* and column 3 is the identity's.
C5_FailingInput ==
    /\ op = "mv_mat4"
    /\ args = CountingNumbers(4, 0)
    /\ out.v = << <<1, 2, 3, 4>>, <<5, 6, 7, 8>>, <<7, 8, 9, 10>>, <<0, 0, 0, 1>> >>

\* vec4([]) returns vec4(0,0,0,0).
C8_FailingInput ==
    /\ op = "vec4"
    /\ args = <<Arr(<<>>)>>
    /\ out = V4(0, 0, 0, 0)

\* mult(vec4(1,1,1,1), 2) of the mv/ directory returns (2, 2, 2, NaN).
C10_FailingInput ==
    /\ op = "mv_mult"
    /\ args = <<V4(1, 1, 1, 1), Num(2)>>
    /\ out.v = <<2, 2, 2, NaN>>

\* The operand pairs mult accepts: two matrices of one shape, a container and
\* a number in either order, a matrix and a vector of its size, two vectors
\* of one shape.
MultAccepts(a, b) ==
    \/ isMatrix(a) /\ isMatrix(b) /\ a.type = b.type
    \/ (isMatrix(a) \/ isVector(a)) /\ IsNumber(b)
    \/ IsNumber(a) /\ (isMatrix(b) \/ isVector(b))
    \/ isMatrix(a) /\ isVector(b) /\ Size(a) = Size(b)
    \/ isVector(a) /\ isVector(b) /\ a.type = b.type

\* C11: mult raises an error for every operand pair it does not accept: the
\* left-hand-operand error for a vector with a matrix, the size-mismatch
\* error for a matrix with a vector of another size, the generic error for
\* every other pair.
C11_MultErrorKinds ==
    (op = "mult" /\ ~MultAccepts(A, B)) =>
        out = IF isVector(A) /\ isMatrix(B)
              THEN Error("mult: matrix must be the left-hand operand")
              ELSE IF isMatrix(A) /\ isVector(B)
              THEN Error("mult: matrix and vector operands must be the same size")
              ELSE Error("mult: expected matrices, vectors or a scalar")

\* A vec3 multiplied by a mat2 is refused with the left-hand-operand error.
C11_Witness ==
    /\ op = "mult"
    /\ A.type = "vec3" /\ B.type = "mat2"
    /\ out = Error("mult: matrix must be the left-hand operand")

\* A mat2 multiplied by a vec3 is refused with the size-mismatch error, and
\* two numbers with the generic one.
C11_WitnessSize ==
    /\ op = "mult"
    /\ A.type = "mat2" /\ B.type = "vec3"
    /\ out = Error("mult: matrix and vector operands must be the same size")

C11_WitnessGeneric ==
    /\ op = "mult"
    /\ IsNumber(A) /\ IsNumber(B)
    /\ out = Error("mult: expected matrices, vectors or a scalar")

\* The third operand.
S == args[3]

\* C12: normalize of a vector of magnitude zero is the all-zero vector of
\* the same shape: no error and no NaN or Infinity component.
C12_NormalizeZeroIsZero ==
    (op = "normalize" /\ isVector(A) /\ dot(A, A) = Num(0))
        => /\ out.type = A.type
           /\ Len(out.v) = Size(A)
           /\ \A i \in 1..Size(A) : out.v[i] = 0

\* normalize(vec4(0,0,0,0)) is vec4(0,0,0,0).
C12_Witness ==
    /\ op = "normalize"
    /\ A = V4(0, 0, 0, 0)
    /\ out = V4(0, 0, 0, 0)

\* Two numbers, or two vectors of one shape.
Mixable(a, b) ==
    \/ IsNumber(a) /\ IsNumber(b)
    \/ isVector(a) /\ isVector(b) /\ a.type = b.type

\* The components of a number or a vector.
Components(a) == IF IsNumber(a) THEN <<a.v>> ELSE a.v

\* C13: mix(u, v, s) of two numbers or two vectors of one shape is u for
\* every s <= 0, v for every s >= 1, and (1-s)*u + s*v in each component for
\* s in between, never an error; a number with a vector, or two vectors of
\* different shapes, raise an error.
C13_MixClamps ==
    (op = "mix" /\ IsNumber(S)) =>
        /\ (Mixable(A, B) /\ S.v <= 0) => out = A
        /\ (Mixable(A, B) /\ S.v >= RatioUnit) => out = B
        /\ (Mixable(A, B) /\ S.v \in 0..RatioUnit) =>
               /\ out.type = A.type
               /\ \A i \in 1..Len(Components(A)) :
                      RatioUnit * Components(out)[i] =
                          (RatioUnit - S.v) * Components(A)[i] + S.v * Components(B)[i]
        /\ ((IsNumber(A) /\ isVector(B)) \/ (isVector(A) /\ IsNumber(B))
            \/ (isVector(A) /\ isVector(B) /\ A.type # B.type)) => IsError(out)

\* mix(0, 10, 2) is 10.
C13_Witness ==
    /\ op = "mix"
    /\ args = <<Num(0), Num(10), Num(2 * RatioUnit)>>
    /\ out = Num(10)

\* mix(vec2(0,0), vec2(10,10), 0.5) is vec2(5,5): the ratio is one unit of
\* one half.
C13_WitnessHalf ==
    /\ op = "mix"
    /\ RatioUnit = 2
    /\ args = <<V2(0, 0), V2(10, 10), Num(1)>>
    /\ out = V2(5, 5)

\* mix(vec2(1,2), 2, 0.5) is refused.
C13_WitnessError ==
    /\ op = "mix"
    /\ A.type = "vec2" /\ IsNumber(B) /\ IsNumber(S)
    /\ IsError(out)

\* The top-left 3x3 block of a matrix.
TopLeft3(m) == [type |-> "mat3", v |-> [c \in 1..3 |-> [r \in 1..3 |-> m.v[c][r]]]]

\* C14: normalMatrix(m, true) of an invertible 4x4 matrix m is the top-left
\* 3x3 block of inverse(transpose(m)), in init/canvas.ts and in lib.ts alike.
C14_NormalMat3IsBlockOfInverse ==
    (/\ op \in {"normalMatrix", "lib_normalMatrix"}
     /\ A.type = "mat4" /\ AsMat3(args)
     /\ Unimodular(A))
        => out = TopLeft3(inverse(transpose(A)))

\* The same of lib.ts alone.
C14_LibNormalMat3IsBlockOfInverse ==
    (op = "lib_normalMatrix" /\ A.type = "mat4" /\ AsMat3(args) /\ Unimodular(A))
        => out = TopLeft3(inverse(transpose(A)))

\* The same of init/canvas.ts on the matrices whose last column or whose
\* bottom row is (0, 0, 0, d).
C14_AffineNormalMat3IsBlockOfInverse ==
    (/\ op = "normalMatrix" /\ A.type = "mat4" /\ AsMat3(args) /\ Unimodular(A)
     /\ \/ \A c \in 1..3 : A.v[c][4] = 0
        \/ \A r \in 1..3 : A.v[4][r] = 0)
        => out = TopLeft3(inverse(transpose(A)))

\* normalMatrix(m, true) of init/canvas.ts for the matrix with last column
\* (1,0,0,2) and bottom row (1,0,0,2) returns the identity; the block of
\* inverse(transpose(m)) has 2 in its corner.
C14_FailingInput ==
    /\ op = "normalMatrix"
    /\ args = <<Bordered(<<1, 0, 0>>, <<1, 0, 0>>, 2), Bool(TRUE)>>
    /\ out = mat3(<<>>)
    /\ TopLeft3(inverse(transpose(A))) = M3(<<2, 0, 0, 0, 1, 0, 0, 0, 1>>)

\* C15: lookAt(eye, at, up) returns what lookAtMatrix(eye, at, up) returns,
\* and lookAt(eye, at) what lookAtMatrix(eye, at) returns with its default
\* up vector, not an error.
C15_LookAtIsLookAtMatrix ==
    op = "lookAt" => out = lookAtMatrix(A, B, Arg(args, 3))

\* The same of the calls that pass an up vector.
C15_LookAtWithUpIsLookAtMatrix ==
    (op = "lookAt" /\ Len(args) = 3 /\ args[3] # Null) => out = lookAtMatrix(A, B, args[3])

\* lookAt((0,0,1), (0,0,0)) raises an error; lookAtMatrix of the same two
\* vectors is the translation by (0,0,-1).
C15_FailingInput ==
    /\ op = "lookAt"
    /\ args = <<V3(0, 0, 1), V3(0, 0, 0)>>
    /\ IsError(out)
    /\ lookAtMatrix(A, B, Missing) = M4(<<1, 0, 0, 0,  0, 1, 0, 0,  0, 0, 1, 0,  0, 0, -1, 1>>)

\* The plain arrays of three numbers.
IsTriple(a) == a.type = "array" /\ Len(a.v) = 3

\* C16: rotateX(d), rotateY(d) and rotateZ(d) return what rotationMatrix
\* returns for 'x', 'y', 'z' and radians(d); rotate(d, ax, ay, az) what it
\* returns for vec3(ax, ay, az) and radians(d); and rotate(d, axis) with
\* axis an array of three numbers what it returns for vec3(axis) and
\* radians(d).
C16_RotateAliasesDelegate ==
    IsNumber(A) =>
        /\ op = "rotateX" => out = rotationMatrix(Str("x"), radians(A))
        /\ op = "rotateY" => out = rotationMatrix(Str("y"), radians(A))
        /\ op = "rotateZ" => out = rotationMatrix(Str("z"), radians(A))
        /\ op = "rotate" /\ Len(args) = 4 =>
               out = rotationMatrix(vec3(<<args[2], args[3], args[4]>>), radians(A))
        /\ op = "rotate" /\ Len(args) = 2 /\ IsTriple(B) =>
               out = rotationMatrix(vec3(<<B>>), radians(A))

\* The same without the calls that pass the axis as an array.
C16_RotateNumbersDelegate ==
    IsNumber(A) =>
        /\ op = "rotateX" => out = rotationMatrix(Str("x"), radians(A))
        /\ op = "rotateY" => out = rotationMatrix(Str("y"), radians(A))
        /\ op = "rotateZ" => out = rotationMatrix(Str("z"), radians(A))
        /\ op = "rotate" /\ Len(args) = 4 =>
               out = rotationMatrix(vec3(<<args[2], args[3], args[4]>>), radians(A))
        /\ op = "rotate" /\ Len(args) = 2 /\ isVector(B) =>
               out = rotationMatrix(B, radians(A))

\* rotate(90, [0, 0, 1]) raises an error; rotationMatrix(vec3(0, 0, 1),
\* radians(90)) is the quarter turn about z.
C16_FailingInput ==
    /\ op = "rotate"
    /\ args = <<Num(90), Arr(<<0, 0, 1>>)>>
    /\ IsError(out)
    /\ rotationMatrix(vec3(<<B>>), radians(A))
           = M4(<<0, 1, 0, 0,  -1, 0, 0, 0,  0, 0, 1, 0,  0, 0, 0, 1>>)

\* rotateX(90) is the quarter turn about x, and rotate(90, 0, 0, 1) the one about z.
C16_WitnessDelegates ==
    \/ /\ op = "rotateX" /\ args = <<Num(90)>>
       /\ out = M4(<<1, 0, 0, 0,  0, 0, 1, 0,  0, -1, 0, 0,  0, 0, 0, 1>>)
    \/ /\ op = "rotate" /\ args = <<Num(90), Num(0), Num(0), Num(1)>>
       /\ out = M4(<<0, 1, 0, 0,  -1, 0, 0, 0,  0, 0, 1, 0,  0, 0, 0, 1>>)

\* The six planes of the box of an orthographicMatrix call.
Left == args[1].v

Right == args[2].v

Bottom == args[3].v

Top == args[4].v

Near == args[5].v

Far == args[6].v

\* A call of orthographicMatrix or ortho with six numbers that span a box.
OrthographicCall ==
    /\ op \in {"orthographicMatrix", "ortho"}
    /\ Len(args) = 6 /\ \A i \in 1..6 : IsNumber(args[i])
    /\ Right # Left /\ Top # Bottom /\ Far # Near

\* C17: orthographicMatrix(l, r, b, t, n, f) holds -(l+r)/(r-l),
\* -(t+b)/(t-b), -(f+n)/(f-n) at matrix[3][0], matrix[3][1], matrix[3][2] and
\* 0 at matrix[0][3], matrix[1][3], matrix[2][3], and its standard product
\* with (l, b, -n, 1) is (-1, -1, -1, 1).
C17_OrthographicTermsInLastColumn ==
    OrthographicCall =>
        /\ At2(out, 3, 0) * (Right - Left) = 0 - (Left + Right)
        /\ At2(out, 3, 1) * (Top - Bottom) = 0 - (Top + Bottom)
        /\ At2(out, 3, 2) * (Far - Near) = 0 - (Far + Near)
        /\ At2(out, 0, 3) = 0 /\ At2(out, 1, 3) = 0 /\ At2(out, 2, 3) = 0
        /\ StandardMatVec(out, V4(Left, Bottom, 0 - Near, 1)) = V4(-1, -1, -1, 1)

\* Where orthographicMatrix holds the three terms: at matrix[0][3],
\* matrix[1][3], matrix[2][3], with 0 at matrix[3][0], matrix[3][1],
\* matrix[3][2].
C17_OrthographicTermsInBottomRow ==
    OrthographicCall =>
        /\ At2(out, 0, 3) * (Right - Left) = 0 - (Left + Right)
        /\ At2(out, 1, 3) * (Top - Bottom) = 0 - (Top + Bottom)
        /\ At2(out, 2, 3) * (Far - Near) = 0 - (Far + Near)
        /\ At2(out, 3, 0) = 0 /\ At2(out, 3, 1) = 0 /\ At2(out, 3, 2) = 0
        /\ StandardMatVec(transpose(out), V4(Left, Bottom, 0 - Near, 1)) = V4(-1, -1, -1, 1)

\* orthographicMatrix(0, 2, 0, 2, 0, 2) holds -1 at matrix[0][3],
\* matrix[1][3], matrix[2][3] and 0 at matrix[3][0..2]; its standard product
\* with the corner (0, 0, 0, 1) is (0, 0, 0, 1).
C17_FailingInput ==
    /\ op = "orthographicMatrix"
    /\ args = <<Num(0), Num(2), Num(0), Num(2), Num(0), Num(2)>>
    /\ out = M4(<<1, 0, 0, -1,  0, 1, 0, -1,  0, 0, -1, -1,  0, 0, 0, 1>>)
    /\ StandardMatVec(out, V4(0, 0, 0, 1)) = V4(0, 0, 0, 1)

\* C18: mult(translationMatrix(x, y, z), vec4(px, py, pz, 1)) is
\* vec4(px + x, py + y, pz + z, 1), and so vec4(x, y, z, 1) for the origin.
C18_TranslationMovesPoint ==
    op = "mult_translation" =>
        out = V4(At(args[4], 0) + args[1].v, At(args[4], 1) + args[2].v,
                 At(args[4], 2) + args[3].v, 1)

\* What the product returns: the point itself, with the dot product of the
\* point and (x, y, z, 1) as its last component.
C18_TranslationLeavesPoint ==
    op = "mult_translation" =>
        out = V4(At(args[4], 0), At(args[4], 1), At(args[4], 2),
                 At(args[4], 0) * args[1].v + At(args[4], 1) * args[2].v
                     + At(args[4], 2) * args[3].v + 1)

\* translationMatrix(x, y, z) and translate(x, y, z) hold x, y, z at
\* matrix[3][0], matrix[3][1], matrix[3][2].
C18_TranslationInLastColumn ==
    (op \in {"translationMatrix", "translate"} /\ Len(args) = 3 /\ IsNumber(args[3]))
        => out = M4(<<1, 0, 0, 0,  0, 1, 0, 0,  0, 0, 1, 0,  A.v, B.v, S.v, 1>>)

\* mult(translationMatrix(1, 2, 1), vec4(0, 0, 0, 1)) returns vec4(0, 0, 0, 1).
C18_FailingInput ==
    /\ op = "mult_translation"
    /\ args = <<Num(1), Num(2), Num(1), V4(0, 0, 0, 1)>>
    /\ out = V4(0, 0, 0, 1)

\* C19: when add, sub, mult, negate, normalize, mix, transpose, inverse, a
\* matN or vecN constructor, normalMatrix or lookAtMatrix has returned, every
\* operand holds the components it held before the call, and it holds them
\* still after a write to a component of the result.
C19_OperandsUnchanged ==
    out.type = "stored" => LoadAll(out.heap, out.operands) = args

\* mat3 has built a matrix from three column vectors and an entry of the
\* matrix has been written since.
C19_Witness ==
    /\ op = "write" /\ out.of = "mat3" /\ Len(args) = 3
    /\ isMatrix(out.result)
    /\ \E c \in 1..3 : \E r \in 1..3 : Load(out.heap, out.result).v[c][r] = Written

\* lookAtMatrix has negated its direction vector and returned a matrix.
C19_WitnessLookAt ==
    /\ op = "lookAtMatrix" /\ isMatrix(out.result)
    /\ args[1] = V3(0, 0, 1)
    /\ out.heap[Len(Heap) + 1] = <<0, 0, 1>>

\* C20: mat2, mat3 or mat4 called with N arguments returns, when they all
\* are vectors of length N, the matrix whose column i holds the components
\* of argument i, and raises an error otherwise.
C20_ColumnsRoundTrip ==
    (op \in {"mat2", "mat3", "mat4"} /\ Len(args) = CtorSize(op)) =>
        IF \A i \in 1..Len(args) : isVector(args[i]) /\ Len(args[i].v) = CtorSize(op)
        THEN /\ out.type = op
             /\ Len(out.v) = CtorSize(op)
             /\ \A i \in 0..(CtorSize(op) - 1) :
                    /\ Len(out.v[i + 1]) = CtorSize(op)
                    /\ \A r \in 0..(CtorSize(op) - 1) : At2(out, i, r) = At(args[i + 1], r)
        ELSE IsError(out)

\* mat3 of three column vectors of nine different components.
C20_Witness ==
    /\ op = "mat3"
    /\ args = <<V3(11, 12, 13), V3(21, 22, 23), V3(31, 32, 33)>>
    /\ out.v = << <<11, 12, 13>>, <<21, 22, 23>>, <<31, 32, 33>> >>

\* mat2 of a vec2 and a vec3 raises an error.
C20_WitnessError ==
    /\ op = "mat2"
    /\ args = <<V2(11, 12), V3(1, 2, 3)>>
    /\ IsError(out)

\* The argument lists matN accepts: none, n*n numbers, one number, one
\* matrix, n vectors of length n.
AcceptedForm(n, as) ==
    \/ Len(as) = 0
    \/ Len(as) = n * n /\ \A i \in 1..Len(as) : IsNumber(as[i])
    \/ Len(as) = 1 /\ (IsNumber(as[1]) \/ isMatrix(as[1]))
    \/ Len(as) = n /\ \A i \in 1..Len(as) : isVector(as[i]) /\ Len(as[i].v) = n

\* C21: mat2, mat3 and mat4 raise an error for every argument list that has
\* none of the accepted forms.
C21_OtherFormsAreErrors ==
    (op \in {"mat2", "mat3", "mat4"} /\ ~AcceptedForm(CtorSize(op), args)) => IsError(out)

\* mat4 called with four numbers raises an error.
C21_Witness ==
    /\ op = "mat4"
    /\ args = <<Num(1), Num(2), Num(3), Num(4)>>
    /\ IsError(out)

\* mat2 called with two numbers, and mat3 called with nine arguments of
\* which the last is an array, raise an error.
C21_WitnessOthers ==
    \/ op = "mat2" /\ args = <<Num(1), Num(2)>> /\ IsError(out)
    \/ op = "mat3" /\ Len(args) = 9 /\ args[9] = Arr(<<1>>) /\ IsError(out)

\* C22: cross raises an error unless both operands are vec3; for two vec3 it
\* returns (a1*b2 - a2*b1, a2*b0 - a0*b2, a0*b1 - a1*b0), whose dot products
\* with a and with b are 0.
C22_CrossIsOrthogonal ==
    op = "cross" =>
        IF A.type = "vec3" /\ B.type = "vec3"
        THEN /\ out = [type |-> "vec3",
                       v |-> <<A.v[2] * B.v[3] - A.v[3] * B.v[2],
                               A.v[3] * B.v[1] - A.v[1] * B.v[3],
                               A.v[1] * B.v[2] - A.v[2] * B.v[1]>>]
             /\ dot(out, A) = Num(0)
             /\ dot(out, B) = Num(0)
        ELSE IsError(out)

\* cross(vec3(1,0,0), vec3(0,1,0)) is vec3(0,0,1).
C22_Witness ==
    /\ op = "cross"
    /\ args = <<V3(1, 0, 0), V3(0, 1, 0)>>
    /\ out = V3(0, 0, 1)

\* cross of two vectors with no zero component, and of a vec2 and a vec3.
C22_WitnessGeneral ==
    \/ op = "cross" /\ args = <<V3(1, -1, 1), V3(1, 2, 1)>> /\ out = V3(-3, 0, 3)
    \/ op = "cross" /\ args = <<V2(1, 2), V3(1, 2, 3)>> /\ IsError(out)

\* C23: transpose(m) of a 2x2, 3x3 or 4x4 matrix m has m's shape and holds
\* m[r][c] at [c][r], and transpose(transpose(m)) is m.
C23_TransposeIsInvolution ==
    /\ (op = "transpose" /\ isMatrix(A)) =>
           /\ out.type = A.type
           /\ Len(out.v) = Size(A)
           /\ \A c \in 0..(Size(A) - 1) :
                  /\ Len(out.v[c + 1]) = Size(A)
                  /\ \A r \in 0..(Size(A) - 1) : At2(out, c, r) = At2(A, r, c)
    /\ (op = "transpose_transpose" /\ isMatrix(A)) => out = A

\* A 4x4 matrix that is not symmetric, transposed twice.
C23_Witness ==
    /\ op = "transpose_transpose"
    /\ A.type = "mat4"
    /\ \E c \in 0..3 : \E r \in 0..3 : At2(A, c, r) # At2(A, r, c)
    /\ out = A

\* A 3x3 matrix that is not symmetric, transposed once.
C23_WitnessOnce ==
    /\ op = "transpose"
    /\ A.type = "mat3"
    /\ out # A

\* C24: any two executions of func by the function throttle returned are at
\* least wait milliseconds apart.
C24_AtMostOncePerWait ==
    out.type = "throttle" =>
        \A i \in 1..Len(out.execs) : \A j \in 1..Len(out.execs) :
            i < j => out.execs[j].t - out.execs[i].t >= Wait

\* Calls at 0 and inside the window execute func at 0 and at wait; a third
\* call one millisecond later executes func at once, one millisecond after
\* the trailing execution.
C24_FailingInput ==
    /\ out.type = "throttle"
    /\ Len(out.execs) = 3
    /\ out.execs[1].t = 0
    /\ out.execs[2].t = Wait
    /\ out.execs[3].t = Wait + 1

\* What holds of the executions: the one a call makes at once is wait or
\* more after every execution that is not the trailing one just before it,
\* so func is executed at most twice in any wait milliseconds.
C24_AtMostTwicePerWait ==
    out.type = "throttle" =>
        \A i \in 1..Len(out.execs) : \A j \in 1..Len(out.execs) :
            i + 1 < j => out.execs[j].t - out.execs[i].t >= Wait

\* C25: while a window is pending func is not executed; when the window's
\* timer expires, wait milliseconds after the execution that opened it, func
\* is executed once if the window saw a call and not at all if it saw none.
C25_TrailingOnceAtExpiry ==
    [][(out.type = "throttle" /\ out.pending) =>
          IF op' = "timeout"
          THEN /\ out.now = out.execs[Len(out.execs)].t + Wait
               /\ IF out.missed > 0
                  THEN /\ Len(out'.execs) = Len(out.execs) + 1
                       /\ SubSeq(out'.execs, 1, Len(out.execs)) = out.execs
                       /\ out'.execs[Len(out'.execs)].t = out.now
                  ELSE out'.execs = out.execs
          ELSE out'.execs = out.execs]_vars

\* Calls at 0 and one millisecond later, func executed at 0 and at wait.
C25_Witness ==
    /\ out.type = "throttle" /\ op = "timeout"
    /\ out.calls = 2
    /\ Len(out.execs) = 2
    /\ out.execs[1].t = 0
    /\ out.execs[2].t = Wait

\* A window that saw no call has expired: one call, one execution.
C25_WitnessQuiet ==
    /\ out.type = "throttle" /\ op = "timeout"
    /\ out.calls = 1 /\ Len(out.execs) = 1 /\ ~out.pending

\* C26: func is executed only by a timer that fires wait milliseconds after
\* the most recent call, with that call's argument; calls execute nothing,
\* and once func has run no timer is left to run it again.
C26_ExecutesAfterQuietWait ==
    [][out.type = "debounce" =>
          IF op' = "timeout"
          THEN /\ out.calls > 0
               /\ out.now = out.last + Wait
               /\ out'.execs = Append(out.execs, [t |-> out.last + Wait, a |-> out.lastArg])
               /\ out'.timers = {}
          ELSE out'.execs = out.execs]_vars

\* A burst of three calls one millisecond apart, the last with a different
\* argument: one execution, wait after the last call, with its argument.
C26_Witness ==
    /\ out.type = "debounce" /\ op = "timeout"
    /\ out.calls = 3 /\ out.last = 2 /\ out.lastArg = 2
    /\ out.execs = <<[t |-> 2 + Wait, a |-> 2]>>

\* The number of executions never exceeds the number of calls, and with a
\* timer outstanding it is smaller.
C26_OncePerBurst ==
    out.type = "debounce" =>
        /\ Len(out.execs) <= out.calls
        /\ out.timers # {} => Len(out.execs) < out.calls
        /\ Cardinality(out.timers) <= 1

\* C27: after any sequence of component writes, writes through x, y, z and
\* w, assignments to type and deletions of type, the object's type property
\* is the tag it was constructed with, and isVector and isMatrix answer as
\* they did at construction.
C27_TagIsFixed ==
    out.type = "object" =>
        /\ Get(out, "type") = out.made
        /\ isVector(Value(out)) <=> out.made \in {"vec2", "vec3", "vec4"}
        /\ isMatrix(Value(out)) <=> out.made \in {"mat2", "mat3", "mat4"}

\* A vec3 whose components have been written and whose type has just been
\* assigned: the assignment was rejected.
C27_Witness ==
    /\ out.type = "object" /\ op = "assign_type"
    /\ out.made = "vec3" /\ out.elems # <<0, 0, 0>>
    /\ out.failed

\* A mat4 whose type has just been deleted: the deletion was rejected.
C27_WitnessDelete ==
    /\ out.type = "object" /\ op = "delete_type"
    /\ out.made = "mat4" /\ out.failed /\ Get(out, "type") = "mat4"

TagSize(tag) == IF tag = "vec2" THEN 2 ELSE IF tag = "vec3" THEN 3 ELSE 4

\* The names of a vector read the matching indices, the vector has as many
\* elements as its size and its keys are its indices and what callers added.
NamesAreViews(o) ==
    /\ \A i \in 0..(TagSize(o.made) - 1) :
           /\ Get(o, Names[i + 1]) = o.elems[i + 1]
           /\ [name |-> Names[i + 1]] \notin Keys(o)
    /\ Len(o.elems) = TagSize(o.made)

\* A write through the name of index i has set that element and nothing else.
NameWroteIndex(o, p, i) ==
    /\ \E n \in WriteVals : p.elems = [o.elems EXCEPT ![i + 1] = n]
    /\ p.props = o.props

\* C28: for every vec2, vec3 and vec4, after any sequence of writes through
\* indices and names, x, y, z and w read the elements 0, 1, 2 and 3 the vector
\* has, the accessors are not among its keys and its length is its size; a
\* write through a name changes the matching element and nothing else.
C28_NamesAreViews ==
    /\ []((out.type = "object" /\ out.made \in {"vec2", "vec3", "vec4"}) => NamesAreViews(out))
    /\ [][(out.type = "object" /\ out.made \in {"vec2", "vec3", "vec4"}) =>
            \A i \in 0..(TagSize(out.made) - 1) :
                op' = Names[i + 1] => NameWroteIndex(out, out', i)]_vars

\* v = vec3(); v[0] = 5 or v.x = 5; then v.y = 6: v is (5, 6, 0) and v.x is 5.
C28_Witness ==
    /\ out.type = "object" /\ op = "y"
    /\ out.made = "vec3" /\ out.elems = <<5, 6, 0>>
    /\ Get(out, "x") = 5 /\ Get(out, "y") = 6

\* The letter of a coordinate axis.
AxisLetter(axis) ==
    IF axis = V3(1, 0, 0) THEN "x" ELSE IF axis = V3(0, 1, 0) THEN "y" ELSE "z"

CoordinateAxes == {V3(1, 0, 0), V3(0, 1, 0), V3(0, 0, 1)}

\* C29: rotationMatrix called with a coordinate axis as a vec3 returns what
\* it returns for the letter of that axis and the same angle, in canvas.ts
\* and in lib.ts, and a string that is not x, y or z in either case is an
\* error.
C29_FormsAgree ==
    /\ (op = "rotationMatrix" /\ args[1] \in CoordinateAxes /\ IsNumber(args[2]))
           => out = rotationMatrix(Str(AxisLetter(args[1])), args[2])
    /\ (op = "lib_rotationMatrix" /\ args[1] \in CoordinateAxes /\ IsNumber(args[2]))
           => out = lib_rotationMatrix(Str(AxisLetter(args[1])), args[2])
    /\ (op \in {"rotationMatrix", "lib_rotationMatrix"} /\ args[1].type = "string"
            /\ args[1].v \notin {"x", "y", "z", "X", "Y", "Z"})
           => IsError(out)

\* rotationMatrix(vec3(0, 1, 0), 0) of lib.ts is not the identity that
\* rotationMatrix('y', 0) is: its [1][1] is 2.
C29_FailingInput ==
    /\ op = "lib_rotationMatrix"
    /\ args = <<V3(0, 1, 0), Num(0)>>
    /\ out = M4(<<1, 0, 0, 0,  0, 2, 0, 0,  0, 0, 1, 0,  0, 0, 0, 1>>)
    /\ lib_rotationMatrix(Str("y"), Num(0)) = M4(<<1, 0, 0, 0,  0, 1, 0, 0,  0, 0, 1, 0,  0, 0, 0, 1>>)

\* rotationMatrix(vec3(1, 0, 0), 90) of lib.ts has [1][2] = 1 where
\* rotationMatrix('x', 90) has -1.
C29_FailingInputSign ==
    /\ op = "lib_rotationMatrix"
    /\ args = <<V3(1, 0, 0), Num(90)>>
    /\ At2(out, 1, 2) = 1
    /\ At2(lib_rotationMatrix(Str("x"), Num(90)), 1, 2) = -1

SinCosValues == (0 - 2)..2

\* What holds: the two forms of canvas.ts agree on the coordinate axes, for
\* the angles of the model and for sin and cos taken as any given values;
\* and in both files a string that is no axis letter is an error.
C29_CanvasFormsAgree ==
    /\ (op = "rotationMatrix" /\ args[1] \in CoordinateAxes /\ IsNumber(args[2]))
           => out = rotationMatrix(Str(AxisLetter(args[1])), args[2])
    /\ \A axis \in CoordinateAxes : \A s \in SinCosValues : \A c \in SinCosValues :
           RotationAroundAxis(axis, s, c) = RotationAbout(AxisLetter(axis), s, c)
    /\ (op \in {"rotationMatrix", "lib_rotationMatrix"} /\ args[1].type = "string"
            /\ args[1].v \notin {"x", "y", "z", "X", "Y", "Z"})
           => IsError(out)

\* rotationMatrix(vec3(0, 0, 1), radians(90)) of canvas.ts, the quarter turn
\* rotationMatrix('z', radians(90)) is.
C29_WitnessCanvas ==
    /\ op = "rotationMatrix"
    /\ args = <<V3(0, 0, 1), PiOver180(90)>>
    /\ out = M4(<<0, 1, 0, 0,  -1, 0, 0, 0,  0, 0, 1, 0,  0, 0, 0, 1>>)

\* No resize handler is waiting for the throttle and the DPI listener has
\* seen the current ratio.
Settled(st) == ~st.trailing /\ st.devicePixelRatio = st.dpi

\* The canvas has the size of the window in device pixels and onResize was
\* last called with it.
FitsWindow(st) ==
    /\ st.width = st.innerWidth * st.devicePixelRatio
    /\ st.height = st.innerHeight * st.devicePixelRatio
    /\ st.resized = <<st.width, st.height>>

\* C30: after initCanvas with fullscreen and retina, whenever no throttled
\* resize handler and no DPI change is outstanding, the canvas has the
\* window's size times the device pixel ratio and onResize was last called
\* with that size.
C30_CanvasFitsWindow ==
    (out.type = "canvas" /\ Settled(out)) => FitsWindow(out)

\* A 1x1 window at ratio 1 resized to 2x1 and then moved to ratio 2: after
\* the DPI listener the canvas is 2x2, not 4x2.
C30_FailingInput ==
    /\ out.type = "canvas" /\ op = "dpi_change"
    /\ out.innerWidth = 2 /\ out.innerHeight = 1 /\ out.devicePixelRatio = 2
    /\ Settled(out) /\ ~out.pending
    /\ out.width = 2 /\ out.height = 2
    /\ out.resized = <<2, 2>>

\* What holds: the canvas fits the window when nothing is outstanding and
\* either the window has the size it had at initCanvas or the resize
\* handler was the last of the two to run.
C30_FitsInitialWindowOrAfterResize ==
    (out.type = "canvas" /\ Settled(out)
        /\ (<<out.innerWidth, out.innerHeight>> = <<out.baseWidth, out.baseHeight>>
              \/ out.resized = <<out.innerWidth * out.dpi, out.innerHeight * out.dpi>>))
        => FitsWindow(out)

\* A window resized twice within the throttle's 100 ms, after which the
\* trailing handler has sized the canvas to the window.
C30_WitnessTrailing ==
    /\ out.type = "canvas" /\ op = "timeout"
    /\ <<out.innerWidth, out.innerHeight>> # <<out.baseWidth, out.baseHeight>>
    /\ Settled(out) /\ FitsWindow(out)

====
